---- MODULE Spec2Model ----
(***************************************************************************)
(* A model of Refine<real_t,index_t>::refine (src/include/Refine.h): one   *)
(* level of edge refinement of a simplicial mesh that is distributed over  *)
(* nprocs ranks, each rank running the OpenMP regions with nthreads        *)
(* workers.                                                                *)
(*                                                                         *)
(* Arrays indexed from 0 in the source (LIDs, element indices, ranks,      *)
(* worker ids) are functions on 0..n-1 here; std::vectors that are only    *)
(* pushed to (newVertices, newCoords, newElements, send, recv) are         *)
(* sequences, so offset k of the source is position k+1.                   *)
(*                                                                         *)
(* Coordinates are kept doubled (even integers) so that the point          *)
(* x0 + w(x1-x0) of refine_edge with w = 1/2 is an integer; the sign of an *)
(* area or volume of a child does not depend on w in (0,1).                *)
(***************************************************************************)
EXTENDS Integers, Sequences, FiniteSets, TLC

\* ------------------------------------------------------------ bounds
\* Largest number of edges longer than L_max in an input.
MaxLong == 4
\* Largest number of OpenMP workers (nthreads) of a run.
MaxThreads == 2
\* Largest number of edges longer than L_max in an input whose metric is
\* malformed.
MaxLongNaN == 2
\* Largest number of edges longer than L_max in an input of the runs in which
\* two workers share the element scan.
MaxLongScan == 3

\* Largest number of workers of an append phase taken alone.
MaxWorkers == 6
\* The numbers of entries a worker's buffer holds in an append phase taken
\* alone: none or two.
CountValues == {0, 2}

\* The values of the argument L_max of refine(): every edge has length 1 or
\* 2, so 1 splits the edges of length 2 and a value that is not positive
\* splits every edge.
LMaxValues == {-1, 0, 1}

\* The real_t value for which isnan() is true; every other real_t of the model
\* is an integer greater than it.
NaN == -1000000

\* std::numeric_limits<index_t>::max() for index_t = int: the pending mark.
MAX_INT == 2147483647

\* ------------------------------------------------------------ helpers
Range(f) == {f[x] : x \in DOMAIN f}

Min2(a, b) == IF a < b THEN a ELSE b
Max2(a, b) == IF a < b THEN b ELSE a

\* The elements of a finite set of integers as an increasing sequence.
RECURSIVE SortedSeq(_)
SortedSeq(S) ==
  IF S = {} THEN <<>>
  ELSE LET m == CHOOSE x \in S : \A y \in S : x <= y
       IN <<m>> \o SortedSeq(S \ {m})

\* A sequence as an array indexed from 0.
Arr(s) == [i \in 0..(Len(s) - 1) |-> s[i + 1]]

\* Position (from 1) of x in sequence s, 0 when absent.
PosIn(s, x) ==
  IF \E k \in 1..Len(s) : s[k] = x
  THEN CHOOSE k \in 1..Len(s) : s[k] = x /\ \A j \in 1..(k - 1) : s[j] # x
  ELSE 0

\* Number of entries of an array indexed from 0.
Size(a) == Cardinality(DOMAIN a)

RECURSIVE SumTo(_, _)
SumTo(f, n) == IF n < 0 THEN 0 ELSE f[n] + SumTo(f, n - 1)

\* ------------------------------------------------------------ input meshes
(* A global mesh: nd dimensions, xs[g+1] the doubled coordinates of global *)
(* vertex g, el the elements (tuples of global vertices, all of the same    *)
(* orientation), own[g+1] the rank owning vertex g, np the number of ranks. *)
(* A rank holds the elements that have at least one vertex it owns.         *)

\* Two triangles sharing the edge (1,2).
Tri2 == [nd |-> 2,
         xs |-> << <<0, 0>>, <<2, 0>>, <<0, 2>>, <<2, 2>> >>,
         el |-> << <<0, 1, 2>>, <<1, 3, 2>> >>]

\* One tetrahedron.
Tet1 == [nd |-> 3,
         xs |-> << <<0, 0, 0>>, <<2, 0, 0>>, <<0, 2, 0>>, <<0, 0, 2>> >>,
         el |-> << <<0, 1, 2, 3>> >>]

\* Three tetrahedra in a row: faces (0,1,4) and (0,1,2) are shared.
Tet3 == [nd |-> 3,
         xs |-> << <<0, 0, 0>>, <<2, 0, 0>>, <<0, 2, 0>>, <<0, 0, 2>>,
                   <<0, 0, -2>>, <<0, -2, 0>> >>,
         el |-> << <<0, 4, 1, 5>>, <<0, 2, 1, 4>>, <<0, 1, 2, 3>> >>]

\* Two tetrahedra sharing the face (0,1,2).
Tet2 == [nd |-> 3,
         xs |-> << <<0, 0, 0>>, <<2, 0, 0>>, <<0, 2, 0>>, <<0, 0, 2>>,
                   <<0, 0, -2>> >>,
         el |-> << <<0, 2, 1, 4>>, <<0, 1, 2, 3>> >>]

Meshes ==
  << Tri2 @@ [np |-> 1, own |-> <<0, 0, 0, 0>>],
     Tri2 @@ [np |-> 2, own |-> <<0, 0, 1, 1>>],
     Tet1 @@ [np |-> 1, own |-> <<0, 0, 0, 0>>],
     Tet3 @@ [np |-> 1, own |-> <<0, 0, 0, 0, 0, 0>>],
     Tet3 @@ [np |-> 2, own |-> <<0, 0, 0, 0, 0, 1>>],
     Tet2 @@ [np |-> 1, own |-> <<0, 0, 0, 0, 0>>] >>

GVerts(M) == 0..(Len(M.xs) - 1)
ElemVerts(e) == Range(e)
\* The edges of the global mesh, as sets of two global vertices.
GEdges(M) ==
  {{a, b} : a, b \in GVerts(M)} \cap
  UNION {{{e[j], e[k]} : j, k \in DOMAIN e} : e \in Range(M.el)}
MeshEdges(M) == {E \in GEdges(M) : Cardinality(E) = 2}

\* ------------------------------------------------------------ a rank's view
HeldIdx(M, r) ==
  SortedSeq({k \in 1..Len(M.el) : \E g \in ElemVerts(M.el[k]) : M.own[g + 1] = r})
\* Global vertices of the rank, in increasing order: position - 1 is the LID.
LVerts(M, r) ==
  SortedSeq(UNION {ElemVerts(M.el[HeldIdx(M, r)[k]]) : k \in 1..Len(HeldIdx(M, r))})
LidOf(M, r, g) == PosIn(LVerts(M, r), g) - 1
LocalElement(M, r, e) == [j \in DOMAIN e |-> LidOf(M, r, e[j])]
LocalENList(M, r) ==
  Arr([k \in 1..Len(HeldIdx(M, r)) |-> LocalElement(M, r, M.el[HeldIdx(M, r)[k]])])
LocalCoords(M, r) == Arr([k \in 1..Len(LVerts(M, r)) |-> M.xs[LVerts(M, r)[k] + 1]])
\* The metric of a vertex is kept as one (doubled) scalar per vertex.
LocalMetric(M, r) == Arr([k \in 1..Len(LVerts(M, r)) |-> 2 * (LVerts(M, r)[k] + 1)])
\* recv[p]: LIDs of the vertices of rank r that rank p owns; send[p]: LIDs of
\* the vertices rank r owns that rank p holds; both in global order.
LocalRecv(M, r) ==
  [p \in 0..(M.np - 1) |->
     IF p = r THEN <<>>
     ELSE LET gs == SortedSeq({g \in Range(LVerts(M, r)) : M.own[g + 1] = p})
          IN [k \in 1..Len(gs) |-> LidOf(M, r, gs[k])]]
LocalSend(M, r) ==
  [p \in 0..(M.np - 1) |->
     IF p = r THEN <<>>
     ELSE LET gs == SortedSeq({g \in Range(LVerts(M, p)) : M.own[g + 1] = r})
          IN [k \in 1..Len(gs) |-> LidOf(M, r, gs[k])]]

\* Everything a rank holds of mesh M before refine() is called.
LocalView(M, r) ==
  [gvert |-> Arr(LVerts(M, r)),
   coords |-> LocalCoords(M, r),
   metric |-> LocalMetric(M, r),
   ENList |-> LocalENList(M, r),
   send |-> LocalSend(M, r),
   recv |-> LocalRecv(M, r)]
Views ==
  [k \in 1..Len(Meshes) |-> [r \in 0..(Meshes[k].np - 1) |-> LocalView(Meshes[k], r)]]
LongSets ==
  [k \in 1..Len(Meshes) |-> {S \in SUBSET MeshEdges(Meshes[k]) : Cardinality(S) <= MaxLong}]

\* ------------------------------------------------------------ state
VARIABLES
  input,          \* the run: [mesh (index in Meshes), long, nthreads, L_max, diag, nan]
  pc,             \* the part of refine() all ranks are in
  gvert,          \* per rank: global vertex an original LID stands for
  coords,         \* per rank: _mesh->_coords, one tuple per vertex
  metric,         \* per rank: _mesh->metric, one entry per vertex
  ENList,         \* per rank: _mesh->_ENList, one tuple per element
  NNList,         \* per rank: _mesh->NNList
  send, recv,     \* per rank: _mesh->send[p], _mesh->recv[p]
  property,       \* per rank: orientation of the ElementProperty probe
  NNodes, NElements, origNNodes, origNElements,
  lnn2gnn, gnn2lnn, node_owner,
  refined_edges, newVertices, newCoords, newMetric, newElements,
  threadIdx, splitCnt,
  new_edges_size, \* per rank: the reduction variable of the element scan
  scanned,        \* per rank: elements the current scan has visited
  iter,           \* propagation iterations that did not exit
  startEdges,     \* per rank: slots that were not -1 when the scan began
  ub,             \* per rank: the out-of-bounds reads that have happened
  at,             \* per worker: the code of an append phase it executes next
  waiting,        \* the workers that wait in the barrier
  local,          \* per worker: the locals blockSize and tmp of the prefix sum
  accessed,       \* the reads and writes of shared data since the last barrier
  resized,        \* the master has resized the mesh containers
  writers         \* per position of the mesh containers: the buffer entries copied to it

vars == <<input, pc, gvert, coords, metric, ENList, NNList, send, recv,
          property, NNodes, NElements, origNNodes, origNElements,
          lnn2gnn, gnn2lnn, node_owner,
          refined_edges, newVertices, newCoords, newMetric, newElements,
          threadIdx, splitCnt, new_edges_size, scanned, iter, startEdges, ub,
          at, waiting, local, accessed, resized, writers>>

meshVars == <<gvert, coords, metric, ENList, NNList, send, recv, property>>
numberVars == <<lnn2gnn, gnn2lnn>>
stageVars == <<refined_edges, newVertices, newCoords, newMetric, splitCnt>>
loopVars == <<new_edges_size, scanned, iter, startEdges>>
sizeVars == <<NNodes, NElements, origNNodes, origNElements>>
teamVars == <<at, waiting, local, accessed, resized, writers>>

nprocs == Meshes[input.mesh].np
ndims == Meshes[input.mesh].nd
nloc == IF ndims = 2 THEN 3 ELSE 4
nthreads == input.nthreads
Ranks == 0..(nprocs - 1)
Tids == 0..(nthreads - 1)

\* ------------------------------------------------------------ geometry
\* Twice the signed area of (x0,x1,x2); six times the signed volume of
\* (x0,x1,x2,x3).
Det2(x0, x1, x2) ==
  (x1[1] - x0[1]) * (x2[2] - x0[2]) - (x1[2] - x0[2]) * (x2[1] - x0[1])
Det3(x0, x1, x2, x3) ==
  LET a == [k \in 1..3 |-> x1[k] - x0[k]]
      b == [k \in 1..3 |-> x2[k] - x0[k]]
      c == [k \in 1..3 |-> x3[k] - x0[k]]
  IN a[1] * (b[2] * c[3] - b[3] * c[2])
     - a[2] * (b[1] * c[3] - b[3] * c[1])
     + a[3] * (b[1] * c[2] - b[2] * c[1])
Sign(v) == IF v > 0 THEN 1 ELSE IF v < 0 THEN -1 ELSE 0
\* With a NaN coordinate the area or volume is NaN, neither positive nor
\* negative: 0 stands for it.
ElementDet(xs, n) ==
  IF \E j \in DOMAIN n : NaN \in Range(xs[n[j]]) THEN 0
  ELSE IF Len(n) = 3 THEN Det2(xs[n[1]], xs[n[2]], xs[n[3]])
  ELSE Det3(xs[n[1]], xs[n[2]], xs[n[3]], xs[n[4]])

\* The constructor's probe: the orientation of the first element that is not
\* erased (0 stands for property = NULL).
ProbeOrientation(xs, en) ==
  IF \E i \in DOMAIN en : en[i][1] >= 0
  THEN LET i == CHOOSE i \in DOMAIN en :
                  en[i][1] >= 0 /\ \A j \in DOMAIN en : j < i => en[j][1] < 0
       IN Sign(ElementDet(xs, en[i]))
  ELSE 0

\* property->area / property->volume of element n of rank r.
SignedSize(r, n) == property[r] * ElementDet(coords[r], n)

\* create_adjancy: the neighbours of each vertex, in increasing LID order.
BuildNNList(nn, en) ==
  [i \in 0..(nn - 1) |->
     SortedSeq({v \in 0..(nn - 1) :
                  v # i /\ \E k \in DOMAIN en :
                     en[k][1] >= 0 /\ i \in Range(en[k]) /\ v \in Range(en[k])})]

\* ------------------------------------------------------------ Init
\* Runs with several workers are taken on the meshes of at most two elements
\* of one rank, with diagonals of equal length; the diagonal lengths matter in
\* 2D only; L_max is 1 unless
\* every edge has length 1. An input with nan has a malformed metric: the
\* weight of every interpolation is NaN (and so is the length of a diagonal
\* that ends in a new vertex: ldiag0 < ldiag1 is false as it is for <<1, 1>>).
InputsOf(k) ==
  {[mesh |-> k, long |-> SL[1], nthreads |-> td[1], L_max |-> SL[2], diag |-> td[2],
    nan |-> FALSE] :
     SL \in (LongSets[k] \X {1}) \cup ({{}} \X LMaxValues),
     td \in ((IF Len(Meshes[k].el) <= 2 /\ Meshes[k].np = 1 THEN 1..MaxThreads ELSE {1})
               \X {<<1, 1>>})
            \cup ({1} \X (IF Meshes[k].nd = 2 THEN {<<1, 2>>, <<2, 1>>} ELSE {}))}
  \cup
  {[mesh |-> k, long |-> S, nthreads |-> 1, L_max |-> 1, diag |-> <<1, 1>>, nan |-> TRUE] :
     S \in {S \in LongSets[k] : Cardinality(S) \in 1..MaxLongNaN}}
Inputs == UNION {InputsOf(k) : k \in 1..(Len(Meshes) - 1)}

\* The runs of the last mesh: two workers share the element scan of two
\* tetrahedra.
ScanInputs ==
  {[mesh |-> Len(Meshes), long |-> S, nthreads |-> 2, L_max |-> 1, diag |-> <<1, 1>>,
    nan |-> FALSE] :
     S \in {S \in LongSets[Len(Meshes)] : Cardinality(S) <= MaxLongScan}}

InitWith(in, regions, counts) ==
  /\ input \in in
  /\ pc \in regions
  /\ gvert = [r \in Ranks |-> Views[input.mesh][r].gvert]
  /\ coords = [r \in Ranks |-> Views[input.mesh][r].coords]
  /\ metric = [r \in Ranks |-> Views[input.mesh][r].metric]
  /\ ENList = [r \in Ranks |-> Views[input.mesh][r].ENList]
  /\ NNList = [r \in Ranks |->
                 BuildNNList(Size(Views[input.mesh][r].gvert), Views[input.mesh][r].ENList)]
  /\ send = [r \in Ranks |-> Views[input.mesh][r].send]
  /\ recv = [r \in Ranks |-> Views[input.mesh][r].recv]
  /\ property = [r \in Ranks |->
                   ProbeOrientation(Views[input.mesh][r].coords, Views[input.mesh][r].ENList)]
  /\ NNodes = [r \in Ranks |-> Size(Views[input.mesh][r].gvert)]
  /\ origNNodes = NNodes
  /\ NElements = [r \in Ranks |-> Size(Views[input.mesh][r].ENList)]
  /\ origNElements = NElements
  /\ lnn2gnn = [r \in Ranks |-> <<>>]
  /\ gnn2lnn = [r \in Ranks |-> <<>>]
  /\ node_owner = [r \in Ranks |-> <<>>]
  /\ refined_edges = [r \in Ranks |-> <<>>]
  /\ newVertices = [r \in Ranks |-> [t \in Tids |-> <<>>]]
  /\ newCoords = [r \in Ranks |-> [t \in Tids |-> <<>>]]
  /\ newMetric = [r \in Ranks |-> [t \in Tids |-> <<>>]]
  /\ newElements = [r \in Ranks |-> [t \in Tids |-> <<>>]]
  /\ threadIdx = [r \in Ranks |-> [t \in Tids |-> 0]]
  /\ splitCnt \in [Ranks -> [Tids -> counts]]
  /\ new_edges_size = [r \in Ranks |-> 0]
  /\ scanned = [r \in Ranks |-> {}]
  /\ iter = 0
  /\ startEdges = [r \in Ranks |-> {}]
  /\ ub = [r \in Ranks |-> {}]
  /\ at = [t \in Tids |-> "start"]
  /\ waiting = {}
  /\ local = [t \in Tids |-> [blockSize |-> 1, tmp |-> 0]]
  /\ accessed = {}
  /\ resized = FALSE
  /\ writers = <<>>

\* refine() is entered with empty buffers.
InitOf(in) == InitWith(in, {"number"}, {0})

Init == InitOf(Inputs)
InitScan == InitOf(ScanInputs)

\* ------------------------------------------------------------ numbering
\* The numbering without the scan: every rank starts at 0.
GnnOffsetZero(r) == 0

\* MPI_Scan(&NNodes, &gnn_offset, MPI_SUM) minus the rank's own count.
GnnOffset(r) == IF nprocs > 1 THEN SumTo(NNodes, r) - NNodes[r] ELSE 0

\* lnn2gnn before the halo update.
OwnNumbering(r) == [i \in 0..(NNodes[r] - 1) |-> GnnOffset(r) + i]

\* _mesh->halo_update(&lnn2gnn[0], 1): entry recv[p][k] of rank r receives
\* the value rank p holds at its send[r][k].
HaloUpdate(val, r) ==
  [i \in DOMAIN val[r] |->
     IF \E p \in Ranks : \E k \in 1..Len(recv[r][p]) : recv[r][p][k] = i
     THEN LET p == CHOOSE p \in Ranks : \E k \in 1..Len(recv[r][p]) : recv[r][p][k] = i
              k == PosIn(recv[r][p], i)
          IN val[p][send[p][r][k]]
     ELSE val[r][i]]

\* for(i) gnn2lnn[lnn2gnn[i]] = i: a later i overwrites an earlier one.
InverseMap(l2g) ==
  [g \in Range(l2g) |->
     CHOOSE i \in DOMAIN l2g : l2g[i] = g /\ \A j \in DOMAIN l2g : l2g[j] = g => j <= i]

Numbering ==
  /\ pc = "number"
  /\ \E own \in {[r \in Ranks |-> OwnNumbering(r)]} :
     \E upd \in {[r \in Ranks |-> HaloUpdate(own, r)]} :
        /\ lnn2gnn' = upd
        /\ gnn2lnn' = [r \in Ranks |-> InverseMap(upd[r])]
  /\ pc' = "owner"
  /\ UNCHANGED <<input, teamVars, meshVars, sizeVars, node_owner, stageVars, newElements,
                 threadIdx, loopVars, ub>>

\* ------------------------------------------------------------ ownership
\* node_owner[i] = rank, then node_owner[*it] = p for every entry of recv[p].
RECURSIVE OwnerFromRecv(_, _, _)
OwnerFromRecv(own, r, p) ==
  IF p >= nprocs THEN own
  ELSE OwnerFromRecv([i \in DOMAIN own |->
                        IF i \in Range(recv[r][p]) THEN p ELSE own[i]], r, p + 1)

NodeOwnership(r) ==
  LET mine == [i \in 0..(NNodes[r] - 1) |-> r]
  IN IF nprocs > 1 THEN OwnerFromRecv(mine, r, 0) ELSE mine

Ownership ==
  /\ pc = "owner"
  /\ node_owner' = [r \in Ranks |-> NodeOwnership(r)]
  /\ pc' = "select"
  /\ UNCHANGED <<input, teamVars, meshVars, sizeVars, numberVars, stageVars, newElements,
                 threadIdx, loopVars, ub>>

\* ------------------------------------------------------------ edge selection
\* DirectedEdge<index_t>(gid0, gid1): the id is set when the vertex is appended.
DirectedEdge(g0, g1) == [first |-> g0, second |-> g1, id |-> -1]

\* _mesh->calc_edge_length(i, j) for two original vertices of rank r: the
\* metric length of the edge, 2 on the edges of input.long and 1 on the
\* others.
calc_edge_length(r, i, j) ==
  IF {gvert[r][i], gvert[r][j]} \in input.long THEN 2 ELSE 1

\* weight = 1.0/(1.0 + sqrt(property->length(x0, x1, m0)/property->length(x0,
\* x1, m1))): NaN when the metric is malformed (the quotient of two lengths
\* that are both zero or both infinite), else a value in (0,1), for which 1
\* stands (the point is then taken half way).
Weight(r, a, b) == IF input.nan THEN NaN ELSE 1

\* x0 + weight*(x1 - x0) for one component: NaN when the weight is NaN.
Interpolate(v0, v1, weight) ==
  IF weight = NaN \/ v0 = NaN \/ v1 = NaN THEN NaN ELSE v0 + (v1 - v0) \div 2

\* refine_edge(n0, n1, ...): the directed edge, coordinates and metric that
\* are pushed to the worker's buffers.
refine_edge(r, n0, n1) ==
  LET swap == lnn2gnn[r][n0] > lnn2gnn[r][n1]
      a == IF swap THEN n1 ELSE n0
      b == IF swap THEN n0 ELSE n1
      x0 == coords[r][a]
      x1 == coords[r][b]
  IN [vertex |-> DirectedEdge(lnn2gnn[r][a], lnn2gnn[r][b]),
      x |-> [k \in DOMAIN x0 |-> Interpolate(x0[k], x1[k], Weight(r, a, b))],
      m |-> Interpolate(metric[r][a], metric[r][b], Weight(r, a, b))]

(* The staging buffers of one rank while a parallel loop runs:             *)
(* st = [re |-> refined_edges, nv |-> newVertices, nc |-> newCoords,       *)
(*       nm |-> newMetric, sc |-> splitCnt].                               *)
(* Slot 2*it of refined_edges[i] is position 2*it+1, its tag 2*it+2.       *)
SlotPos(it) == 2 * it + 1
TagPos(it) == 2 * it + 2

\* refined_edges[i][2*it] = splitCnt[tid]++; refined_edges[i][2*it+1] = tid;
\* refine_edge(i, otherVertex, newVertices[tid], newCoords[tid], newMetric[tid]).
StageEdge(st, r, i, it, tid) ==
  LET new == refine_edge(r, i, NNList[r][i][it + 1])
  IN [re |-> [st.re EXCEPT ![i][SlotPos(it)] = st.sc[tid], ![i][TagPos(it)] = tid],
      nv |-> [st.nv EXCEPT ![tid] = Append(@, new.vertex)],
      nc |-> [st.nc EXCEPT ![tid] = Append(@, new.x)],
      nm |-> [st.nm EXCEPT ![tid] = Append(@, new.m)],
      sc |-> [st.sc EXCEPT ![tid] = @ + 1]]

\* The test with >= for >: an edge of length L_max is staged as well.
SelectEdgeAtLeast(st, r, i, it, tid) ==
  LET otherVertex == NNList[r][i][it + 1]
  IN IF lnn2gnn[r][i] < lnn2gnn[r][otherVertex]
        /\ calc_edge_length(r, i, otherVertex) >= input.L_max
     THEN StageEdge(st, r, i, it, tid)
     ELSE st

\* The test of one neighbour of vertex i in the edge-selection loop.
SelectEdge(st, r, i, it, tid) ==
  LET otherVertex == NNList[r][i][it + 1]
  IN IF lnn2gnn[r][i] < lnn2gnn[r][otherVertex]
        /\ calc_edge_length(r, i, otherVertex) > input.L_max
     THEN StageEdge(st, r, i, it, tid)
     ELSE st

RECURSIVE SelectNeighbours(_, _, _, _, _)
SelectNeighbours(st, r, i, it, tid) ==
  IF it >= Len(NNList[r][i]) THEN st
  ELSE SelectNeighbours(SelectEdge(st, r, i, it, tid), r, i, it + 1, tid)

\* One iteration of the loop over vertices, run by worker tid:
\* refined_edges[i].resize(2*NNList[i].size(), -1) and the neighbour loop.
SelectVertex(st, r, i, tid) ==
  SelectNeighbours([st EXCEPT !.re[i] = [k \in 1..(2 * Len(NNList[r][i])) |-> -1]],
                   r, i, 0, tid)

\* The loop over vertices; who[i] is the worker the dynamic schedule gives
\* iteration i to (a worker takes its iterations in increasing order).
RECURSIVE SelectLoop(_, _, _, _)
SelectLoop(st, r, i, who) ==
  IF i >= NNodes[r] THEN st
  ELSE SelectLoop(SelectVertex(st, r, i, who[i]), r, i + 1, who)

EmptyStage(r) ==
  [re |-> [i \in 0..(NNodes[r] - 1) |-> <<>>],
   nv |-> [t \in Tids |-> <<>>],
   nc |-> [t \in Tids |-> <<>>],
   nm |-> [t \in Tids |-> <<>>],
   sc |-> [t \in Tids |-> 0]]

CurrentStage(r) ==
  [re |-> refined_edges[r], nv |-> newVertices[r], nc |-> newCoords[r],
   nm |-> newMetric[r], sc |-> splitCnt[r]]

\* The assignments of loop iterations 0..n-1 to workers.
MaxOver(f) == CHOOSE m \in Range(f) : \A x \in Range(f) : x <= m
Schedules(n) == [0..(n - 1) -> Tids]

\* The slots <<i, it>> of re whose value is not -1, and those holding v.
SlotsOf(re) == UNION {{<<i, it>> : it \in 0..(Len(re[i]) \div 2 - 1)} : i \in DOMAIN re}
SetSlots(re) == {s \in SlotsOf(re) : re[s[1]][SlotPos(s[2])] # -1}
SlotsWith(re, v) == {s \in SlotsOf(re) : re[s[1]][SlotPos(s[2])] = v}

Select ==
  /\ pc = "select"
  /\ \E who \in Schedules(MaxOver(NNodes)) :
       \E st \in {[r \in Ranks |-> SelectLoop(EmptyStage(r), r, 0, who)]} :
          /\ refined_edges' = [r \in Ranks |-> st[r].re]
          /\ newVertices' = [r \in Ranks |-> st[r].nv]
          /\ newCoords' = [r \in Ranks |-> st[r].nc]
          /\ newMetric' = [r \in Ranks |-> st[r].nm]
          /\ splitCnt' = [r \in Ranks |-> st[r].sc]
          /\ startEdges' = [r \in Ranks |-> SetSlots(st[r].re)]
  /\ pc' = IF ndims = 3 THEN "scan" ELSE "insert"
  /\ UNCHANGED <<input, teamVars, meshVars, sizeVars, numberVars, node_owner, newElements,
                 threadIdx, new_edges_size, scanned, iter, ub>>

\* ------------------------------------------------------------ propagation
\* _mesh->get_new_vertex(n0, n1, refined_edges, lnn2gnn): the slot of the
\* edge at its endpoint of lesser gnn, -1 when n1 is no neighbour of it.
get_new_vertex(r, re, n0, n1) ==
  LET swap == lnn2gnn[r][n0] > lnn2gnn[r][n1]
      a == IF swap THEN n1 ELSE n0
      b == IF swap THEN n0 ELSE n1
      pos == PosIn(NNList[r][a], b)
  IN IF pos = 0 THEN -1 ELSE re[a][SlotPos(pos - 1)]

\* A mark_edge that leaves the slot as it is.
mark_edge_nothing(r, re, n0, n1) == re

\* mark_edge(n0, n1, refined_edges).
mark_edge(r, re, n0, n1) ==
  LET swap == lnn2gnn[r][n0] > lnn2gnn[r][n1]
      a == IF swap THEN n1 ELSE n0
      b == IF swap THEN n0 ELSE n1
      pos == PosIn(NNList[r][a], b) - 1
  IN [re EXCEPT ![a][SlotPos(pos)] = MAX_INT]

\* Edge<index_t>(nid0, nid1) and its members connected() and contains().
Edge(nid0, nid1) == <<Min2(nid0, nid1), Max2(nid0, nid1)>>
connected(e, in) ==
  IF e[1] = in[1] \/ e[1] = in[2] THEN e[1]
  ELSE IF e[2] = in[1] \/ e[2] = in[2] THEN e[2]
  ELSE -1
contains(e, nid) == e[1] = nid \/ e[2] = nid

\* The pairs (j,k), j<k, in the order of the nested loops (positions from 1).
LocalPairs(n) ==
  IF n = 3 THEN << <<1, 2>>, <<1, 3>>, <<2, 3>> >>
  ELSE << <<1, 2>>, <<1, 3>>, <<1, 4>>, <<2, 3>>, <<2, 4>>, <<3, 4>> >>

\* split_set of element n: its edges whose get_new_vertex is >= 0.
RECURSIVE SplitSetFrom(_, _, _, _)
SplitSetFrom(r, re, n, p) ==
  IF p > Len(LocalPairs(Len(n))) THEN <<>>
  ELSE LET jk == LocalPairs(Len(n))[p]
           rest == SplitSetFrom(r, re, n, p + 1)
       IN IF get_new_vertex(r, re, n[jk[1]], n[jk[2]]) >= 0
          THEN <<Edge(n[jk[1]], n[jk[2]])>> \o rest
          ELSE rest
SplitSet(r, re, n) == SplitSetFrom(r, re, n, 1)

\* mark_edge on every edge of n, split or not.
RECURSIVE MarkEvery(_, _, _, _, _, _)
MarkEvery(out, r, n, split_set, p, cnt) ==
  IF p > 6 THEN out
  ELSE LET jk == LocalPairs(4)[p]
       IN MarkEvery([re |-> mark_edge(r, out.re, n[jk[1]], n[jk[2]]),
                     new |-> out.new + cnt], r, n, split_set, p + 1, cnt)

\* "Refine unsplit edges": mark_edge on every edge of n that is not in
\* split_set; cnt is what each mark adds to new_edges_size.
RECURSIVE MarkUnsplit(_, _, _, _, _, _)
MarkUnsplit(out, r, n, split_set, p, cnt) ==
  IF p > 6 THEN out
  ELSE LET jk == LocalPairs(4)[p]
           test_edge == Edge(n[jk[1]], n[jk[2]])
       IN IF test_edge \notin Range(split_set)
          THEN MarkUnsplit([re |-> mark_edge(r, out.re, n[jk[1]], n[jk[2]]),
                            new |-> out.new + cnt], r, n, split_set, p + 1, cnt)
          ELSE MarkUnsplit(out, r, n, split_set, p + 1, cnt)

\* case 2 of the switch.
ScanCase2(out, r, split_set) ==
  LET n0 == connected(split_set[1], split_set[2])
      n1 == IF n0 = split_set[1][1] THEN split_set[1][2] ELSE split_set[1][1]
      n2 == IF n0 = split_set[2][1] THEN split_set[2][2] ELSE split_set[2][1]
  IN IF n0 >= 0
     THEN [re |-> mark_edge(r, out.re, n1, n2), new |-> out.new + 1]
     ELSE out

\* case 3 of the switch: the nodes common to pairs of split edges.
SharedOfPairs(split_set) ==
  {nid \in {connected(split_set[jk[1]], split_set[jk[2]]) :
              jk \in {<<1, 2>>, <<1, 3>>, <<2, 3>>}} : nid >= 0}
ScanCase3(out, r, n, split_set) ==
  IF Cardinality(SharedOfPairs(split_set)) # 3
  THEN MarkUnsplit(out, r, n, split_set, 1, 0)
  ELSE out

\* case 4 and case 5 of the switch.
ScanCase4(out, r, n, split_set) == MarkUnsplit(out, r, n, split_set, 1, 0)
ScanCase5(out, r, n, split_set) == MarkUnsplit(out, r, n, split_set, 1, 1)

\* The body of the element loop for element n: out = [re, new], new being
\* the reduction variable new_edges_size.
ScanBody(out, r, n) ==
  LET split_set == SplitSet(r, out.re, n)
      refine_cnt == Len(split_set)
  IN IF n[1] < 0 THEN out
     ELSE CASE refine_cnt = 2 -> ScanCase2(out, r, split_set)
            [] refine_cnt = 3 -> ScanCase3(out, r, n, split_set)
            [] refine_cnt = 4 -> ScanCase4(out, r, n, split_set)
            [] refine_cnt = 5 -> ScanCase5(out, r, n, split_set)
            [] OTHER -> out

Unscanned(r) == (0..(NElements[r] - 1)) \ scanned[r]

\* One iteration of the element loop of the propagation. With one worker
\* the iterations run in index order; with several, in any order. Ranks
\* share nothing between collectives, so their loops are taken rank by rank.
ScanElement(r, i) ==
  /\ pc = "scan"
  /\ i \in Unscanned(r)
  /\ \A q \in Ranks : q < r => Unscanned(q) = {}
  /\ nthreads = 1 => \A j \in Unscanned(r) : i <= j
  /\ \E out \in {ScanBody([re |-> refined_edges[r], new |-> new_edges_size[r]],
                          r, ENList[r][i])} :
        /\ refined_edges' = [refined_edges EXCEPT ![r] = out.re]
        /\ new_edges_size' = [new_edges_size EXCEPT ![r] = out.new]
  /\ scanned' = [scanned EXCEPT ![r] = @ \cup {i}]
  /\ UNCHANGED <<input, teamVars, pc, meshVars, sizeVars, numberVars, node_owner,
                 newVertices, newCoords, newMetric, splitCnt, newElements,
                 threadIdx, iter, startEdges, ub>>

\* Every rank keeps its own count.
AllreduceLocal(val) == val

\* MPI_Allreduce(MPI_IN_PLACE, &new_edges_size, MPI_SUM) when nprocs > 1.
Allreduce(val) ==
  [r \in Ranks |-> IF nprocs > 1 THEN SumTo(val, nprocs - 1) ELSE val[r]]

\* The end of the element loop: the reduction and if(new_edges_size==0) break.
ExitTest ==
  /\ pc = "scan"
  /\ \A r \in Ranks : Unscanned(r) = {}
  /\ new_edges_size' = Allreduce(new_edges_size)
  /\ pc' = IF \A r \in Ranks : new_edges_size'[r] = 0 THEN "insert" ELSE "realise"
  /\ UNCHANGED <<input, teamVars, meshVars, sizeVars, numberVars, node_owner, stageVars,
                 newElements, threadIdx, scanned, iter, startEdges, ub>>

\* "Add additional edges to refined_edges": every slot holding the mark is
\* staged by the worker that runs iteration i.
RECURSIVE RealiseNeighbours(_, _, _, _, _)
RealiseNeighbours(st, r, i, it, tid) ==
  IF it >= Len(NNList[r][i]) THEN st
  ELSE RealiseNeighbours(
         IF st.re[i][SlotPos(it)] = MAX_INT THEN StageEdge(st, r, i, it, tid) ELSE st,
         r, i, it + 1, tid)

RECURSIVE RealiseLoop(_, _, _, _)
RealiseLoop(st, r, i, who) ==
  IF i >= NNodes[r] THEN st
  ELSE RealiseLoop(RealiseNeighbours(st, r, i, 0, who[i]), r, i + 1, who)

Realise ==
  /\ pc = "realise"
  /\ \E who \in Schedules(MaxOver(NNodes)) :
       \E st \in {[r \in Ranks |-> RealiseLoop(CurrentStage(r), r, 0, who)]} :
          /\ refined_edges' = [r \in Ranks |-> st[r].re]
          /\ newVertices' = [r \in Ranks |-> st[r].nv]
          /\ newCoords' = [r \in Ranks |-> st[r].nc]
          /\ newMetric' = [r \in Ranks |-> st[r].nm]
          /\ splitCnt' = [r \in Ranks |-> st[r].sc]
          /\ startEdges' = [r \in Ranks |-> SetSlots(st[r].re)]
  /\ pc' = "scan"
  /\ new_edges_size' = [r \in Ranks |-> 0]
  /\ scanned' = [r \in Ranks |-> {}]
  /\ iter' = iter + 1
  /\ UNCHANGED <<input, teamVars, meshVars, sizeVars, numberVars, node_owner, newElements,
                 threadIdx, ub>>

\* ------------------------------------------------------------ new vertices
\* The prefix sum over the workers' counts: the rounds of the while loop,
\* tid & blockSize and tid & (blockSize - 1) for blockSize a power of two.
RECURSIVE PrefixRounds(_, _)
PrefixRounds(tI, blockSize) ==
  IF blockSize >= nthreads THEN tI
  ELSE LET tmp == [tid \in Tids |->
                     IF (tid \div blockSize) % 2 # 0
                     THEN tI[tid - ((tid % blockSize) + 1)]
                     ELSE 0]
       IN PrefixRounds([tid \in Tids |-> tI[tid] + tmp[tid]], blockSize * 2)

\* threadIdx after "threadIdx[tid] += base - splitCnt[tid]".
PrefixSum(cnt, base) ==
  LET tI == PrefixRounds(cnt, 1)
  IN [tid \in Tids |-> tI[tid] + base - cnt[tid]]

\* The copy without the resize: what lies past the old size is dropped.
AppendBuffersNoResize(old, n, newSize, tI, cnt, buf, fill) ==
  [i \in 0..(n - 1) |-> old[i]]

\* resize(newSize) followed by every worker's memcpy of its buffer to
\* threadIdx[tid]: old entries are kept, entries no buffer covers are fill.
AppendBuffers(old, n, newSize, tI, cnt, buf, fill) ==
  [i \in 0..(newSize - 1) |->
     IF \E t \in Tids : tI[t] <= i /\ i < tI[t] + cnt[t]
     THEN LET t == CHOOSE t \in Tids :
                     /\ tI[t] <= i /\ i < tI[t] + cnt[t]
                     /\ \A u \in Tids : (tI[u] <= i /\ i < tI[u] + cnt[u]) => u <= t
          IN buf[t][i - tI[t] + 1]
     ELSE IF i < n THEN old[i] ELSE fill]

\* "Fix IDs of new vertices in refined_edges": *it += threadIdx[*(it+1)] for
\* every slot that is not -1. A slot that still holds the mark has tag -1,
\* so threadIdx[-1] is read: the sum is whatever lies before the array (g).
FixIDs(re, tI, g) ==
  [i \in DOMAIN re |->
     [k \in DOMAIN re[i] |->
        IF k % 2 = 1 /\ re[i][k] # -1
        THEN IF re[i][k + 1] \in Tids THEN re[i][k] + tI[re[i][k + 1]] ELSE g
        ELSE re[i][k]]]

Pending(r) == SlotsWith(refined_edges[r], MAX_INT)

\* What a slot can hold after the read of threadIdx[-1]: a negative number,
\* the LID of a vertex, or a number past the last LID.
Garbage(r) ==
  IF Pending(r) = {} THEN {-2}
  ELSE {-2, 0, NNodes[r] + SumTo(splitCnt[r], nthreads - 1)}

InsertVertices ==
  /\ pc = "insert"
  /\ \E g \in [Ranks -> UNION {Garbage(r) : r \in Ranks}] :
       /\ \A r \in Ranks : g[r] \in Garbage(r)
       /\ \E tI \in {[r \in Ranks |-> PrefixSum(splitCnt[r], NNodes[r])]} :
          \E newSize \in {[r \in Ranks |-> tI[r][nthreads - 1] + splitCnt[r][nthreads - 1]]} :
             /\ threadIdx' = tI
             /\ coords' = [r \in Ranks |->
                  AppendBuffers(coords[r], NNodes[r], newSize[r], tI[r], splitCnt[r],
                                newCoords[r], [k \in 1..ndims |-> 0])]
             /\ metric' = [r \in Ranks |->
                  AppendBuffers(metric[r], NNodes[r], newSize[r], tI[r], splitCnt[r],
                                newMetric[r], 0)]
             /\ NNList' = [r \in Ranks |->
                  [i \in 0..(newSize[r] - 1) |-> IF i < NNodes[r] THEN NNList[r][i] ELSE <<>>]]
             /\ node_owner' = [r \in Ranks |->
                  [i \in 0..(newSize[r] - 1) |-> IF i < NNodes[r] THEN node_owner[r][i] ELSE -1]]
             /\ newVertices' = [r \in Ranks |-> [t \in Tids |->
                  [k \in 1..Len(newVertices[r][t]) |->
                     [newVertices[r][t][k] EXCEPT !.id = tI[r][t] + k - 1]]]]
             /\ refined_edges' = [r \in Ranks |-> FixIDs(refined_edges[r], tI[r], g[r])]
             /\ ub' = [r \in Ranks |->
                  IF Pending(r) # {} THEN ub[r] \cup {"threadIdx[-1]"} ELSE ub[r]]
  /\ pc' = "subdivide"
  /\ UNCHANGED <<input, teamVars, gvert, ENList, send, recv, property, sizeVars, numberVars,
                 newCoords, newMetric, splitCnt, newElements, loopVars>>

\* ------------------------------------------------------------ element refinement
\* 2D, refine_cnt==1: the element rotated so that the split edge is opposite
\* rotated_ele[0].
Refine2D1(n, newVertex) ==
  LET j == CHOOSE j \in 0..2 : newVertex[j] >= 0 /\ \A l \in 0..2 : l < j => newVertex[l] < 0
      vertexID == newVertex[j]
      rotated_ele == [k \in 0..2 |-> n[((j + k) % 3) + 1]]
  IN << <<rotated_ele[0], rotated_ele[1], vertexID>>,
        <<rotated_ele[0], vertexID, rotated_ele[2]>> >>

\* The two-split template with <= for <: equal lengths take the first
\* diagonal.
Refine2D2TieFirst(n, newVertex, ldiag0, ldiag1) ==
  LET j == CHOOSE j \in 0..2 : newVertex[j] < 0 /\ \A l \in 0..2 : l < j => newVertex[l] >= 0
      vertexID == [k \in 0..1 |-> newVertex[(j + 1 + k) % 3]]
      rotated_ele == [k \in 0..2 |-> n[((j + k) % 3) + 1]]
      offset == IF ldiag0 <= ldiag1 THEN 0 ELSE 1
  IN << <<rotated_ele[0], vertexID[1], vertexID[0]>>,
        <<vertexID[offset], rotated_ele[1], rotated_ele[2]>>,
        <<vertexID[0], vertexID[1], rotated_ele[offset + 1]>> >>

\* 2D, refine_cnt==2: ldiag0 and ldiag1 are the lengths calc_edge_length
\* returns for the diagonals (vertexID[0], rotated_ele[1]) and
\* (vertexID[1], rotated_ele[2]).
Refine2D2(n, newVertex, ldiag0, ldiag1) ==
  LET j == CHOOSE j \in 0..2 : newVertex[j] < 0 /\ \A l \in 0..2 : l < j => newVertex[l] >= 0
      vertexID == [k \in 0..1 |-> newVertex[(j + 1 + k) % 3]]
      rotated_ele == [k \in 0..2 |-> n[((j + k) % 3) + 1]]
      offset == IF ldiag0 < ldiag1 THEN 0 ELSE 1
  IN << <<rotated_ele[0], vertexID[1], vertexID[0]>>,
        <<vertexID[offset], rotated_ele[1], rotated_ele[2]>>,
        <<vertexID[0], vertexID[1], rotated_ele[offset + 1]>> >>

\* 2D, refine_cnt==3.
Refine2D3(n, newVertex) ==
  << <<n[1], newVertex[2], newVertex[1]>>,
     <<n[2], newVertex[0], newVertex[2]>>,
     <<n[3], newVertex[1], newVertex[0]>>,
     <<newVertex[0], newVertex[1], newVertex[2]>> >>

\* The children of triangle n: newVertex[j] is on the edge opposite n[j].
Refine2D(r, re, n) ==
  LET newVertex == [j \in 0..2 |->
                      get_new_vertex(r, re, n[((j + 1) % 3) + 1], n[((j + 2) % 3) + 1])]
      refine_cnt == Cardinality({j \in 0..2 : newVertex[j] >= 0})
  IN CASE refine_cnt = 1 -> Refine2D1(n, newVertex)
       [] refine_cnt = 2 -> Refine2D2(n, newVertex, input.diag[1], input.diag[2])
       [] refine_cnt = 3 -> Refine2D3(n, newVertex)
       [] OTHER -> <<>>

\* newVertex of a tetrahedron: the values get_new_vertex gives that are >= 0,
\* in the order of the nested loops (splitEdges is SplitSet).
RECURSIVE NewVertexFrom(_, _, _, _)
NewVertexFrom(r, re, n, p) ==
  IF p > 6 THEN <<>>
  ELSE LET jk == LocalPairs(4)[p]
           vertexID == get_new_vertex(r, re, n[jk[1]], n[jk[2]])
           rest == NewVertexFrom(r, re, n, p + 1)
       IN IF vertexID >= 0 THEN <<vertexID>> \o rest ELSE rest

\* 3D, refine_cnt==1.
Refine3D1(n, newVertex, splitEdges) ==
  LET oe == SelectSeq(n, LAMBDA v : ~contains(splitEdges[1], v))
  IN << <<splitEdges[1][1], newVertex[1], oe[1], oe[2]>>,
        <<splitEdges[1][2], newVertex[1], oe[1], oe[2]>> >>

\* 3D, refine_cnt==2.
Refine3D2(newVertex, splitEdges) ==
  << <<splitEdges[1][1], newVertex[1], splitEdges[2][1], newVertex[2]>>,
     <<splitEdges[1][1], newVertex[1], splitEdges[2][2], newVertex[2]>>,
     <<splitEdges[1][2], newVertex[1], splitEdges[2][1], newVertex[2]>>,
     <<splitEdges[1][2], newVertex[1], splitEdges[2][2], newVertex[2]>> >>

\* 3D, refine_cnt==3: m[0..6], every entry -1 until it is assigned.
Refine3D3(n, newVertex, splitEdges) ==
  LET m0 == splitEdges[1][1]
      m1 == newVertex[1]
      m2 == splitEdges[1][2]
      second == contains(splitEdges[2], m2)
      m3 == IF second THEN newVertex[2] ELSE newVertex[3]
      e == IF second THEN splitEdges[2] ELSE splitEdges[3]
      m4 == IF e[1] # m2 THEN e[1] ELSE e[2]
      m5 == IF second THEN newVertex[3] ELSE newVertex[2]
      rest == SelectSeq(n, LAMBDA v : v # m0 /\ v # m2 /\ v # m4)
      m6 == IF Len(rest) > 0 THEN rest[1] ELSE -1
  IN << <<m0, m1, m5, m6>>,
        <<m1, m2, m3, m6>>,
        <<m5, m3, m4, m6>>,
        <<m1, m3, m5, m6>> >>

\* 3D, refine_cnt==6.
Refine3D6(n, newVertex) ==
  LET nv == Arr(newVertex)
  IN << <<n[1], nv[0], nv[1], nv[2]>>,
        <<n[2], nv[3], nv[0], nv[4]>>,
        <<n[3], nv[1], nv[3], nv[5]>>,
        <<nv[0], nv[3], nv[1], nv[4]>>,
        <<nv[0], nv[4], nv[1], nv[2]>>,
        <<nv[1], nv[3], nv[5], nv[4]>>,
        <<nv[1], nv[4], nv[5], nv[2]>>,
        <<nv[2], nv[4], nv[5], n[4]>> >>

\* The children of tetrahedron n; no template is applied for 4 or 5 edges.
Refine3D(r, re, n) ==
  LET newVertex == NewVertexFrom(r, re, n, 1)
      splitEdges == SplitSet(r, re, n)
      refine_cnt == Len(newVertex)
  IN CASE refine_cnt = 1 -> Refine3D1(n, newVertex, splitEdges)
       [] refine_cnt = 2 -> Refine3D2(newVertex, splitEdges)
       [] refine_cnt = 3 -> Refine3D3(n, newVertex, splitEdges)
       [] refine_cnt = 6 -> Refine3D6(n, newVertex)
       [] OTHER -> <<>>

\* refine_cnt of element n as the refinement loop computes it.
RefineCnt(r, re, n) ==
  Len(SplitSet(r, re, n))

\* _mesh->erase_element(i): the first LID becomes negative.
erase_element(en, i) == [en EXCEPT ![i][1] = -1]

\* The iteration without the continue for an element with no split edge.
RefineElementAlways(st, r, i, tid) ==
  LET n == st.en[i]
      children == IF ndims = 2 THEN Refine2D(r, refined_edges[r], n)
                  ELSE Refine3D(r, refined_edges[r], n)
  IN IF n[1] < 0 THEN st
     ELSE [en |-> erase_element(st.en, i),
           ne |-> [st.ne EXCEPT ![tid] = @ \o children],
           sc |-> [st.sc EXCEPT ![tid] = @ + Len(children)]]

(* One iteration of the refinement loop, run by worker tid, on               *)
(* st = [en |-> _ENList, ne |-> newElements, sc |-> splitCnt]: an erased     *)
(* element and an element without a split edge are left (continue); the      *)
(* children of any other are appended to the worker's buffer and the parent  *)
(* is erased.                                                                *)
RefineElement(st, r, i, tid) ==
  LET n == st.en[i]
      children == IF ndims = 2 THEN Refine2D(r, refined_edges[r], n)
                  ELSE Refine3D(r, refined_edges[r], n)
  IN IF n[1] < 0 \/ RefineCnt(r, refined_edges[r], n) = 0 THEN st
     ELSE [en |-> erase_element(st.en, i),
           ne |-> [st.ne EXCEPT ![tid] = @ \o children],
           sc |-> [st.sc EXCEPT ![tid] = @ + Len(children)]]

RECURSIVE RefineLoop(_, _, _, _)
RefineLoop(st, r, i, who) ==
  IF i >= NElements[r] THEN st
  ELSE RefineLoop(RefineElement(st, r, i, who[i]), r, i + 1, who)

(* The two tests of the 2D refine_cnt==2 template that order the arguments *)
(* of calc_edge_length, for triangle n of rank r: left is the index at      *)
(* which lnn2gnn is read on the left of '<', right the value on the right   *)
(* of '<', other the LID of the diagonal's other endpoint.                  *)
DiagonalTests(r, re, n) ==
  LET newVertex == [j \in 0..2 |->
                      get_new_vertex(r, re, n[((j + 1) % 3) + 1], n[((j + 2) % 3) + 1])]
      j == CHOOSE j \in 0..2 : newVertex[j] < 0 /\ \A l \in 0..2 : l < j => newVertex[l] >= 0
      vertexID == [k \in 0..1 |-> newVertex[(j + 1 + k) % 3]]
      rotated_ele == [k \in 0..2 |-> n[((j + k) % 3) + 1]]
  IN << [left |-> vertexID[0], right |-> lnn2gnn[r][rotated_ele[1]],
         other |-> rotated_ele[1]],
        [left |-> vertexID[1], right |-> rotated_ele[2], other |-> rotated_ele[2]] >>

\* The triangles of rank r that the refinement loop refines with two split
\* edges.
TwoSplit(r) ==
  {i \in 0..(NElements[r] - 1) :
     ndims = 2 /\ ENList[r][i][1] >= 0 /\ RefineCnt(r, refined_edges[r], ENList[r][i]) = 2}

\* Some test of the refinement loop reads lnn2gnn at an index it does not
\* have.
ReadsPastLnn2gnn(r) ==
  \E i \in TwoSplit(r) : \E k \in 1..2 :
    DiagonalTests(r, refined_edges[r], ENList[r][i])[k].left \notin DOMAIN lnn2gnn[r]

\* The parallel region "Perform element refinement": the loop, the prefix
\* sum, the resize of _ENList and the copy of the buffers; then
\* NNodes = get_number_nodes() and NElements = get_number_elements().
Subdivide ==
  /\ pc = "subdivide"
  /\ \E who \in Schedules(MaxOver(NElements)) :
       \E st \in {[r \in Ranks |->
                    RefineLoop([en |-> ENList[r], ne |-> [t \in Tids |-> <<>>],
                                sc |-> [t \in Tids |-> 0]], r, 0, who)]} :
       \E tI \in {[r \in Ranks |-> PrefixSum(st[r].sc, NElements[r])]} :
       \E newSize \in {[r \in Ranks |-> tI[r][nthreads - 1] + st[r].sc[nthreads - 1]]} :
          /\ splitCnt' = [r \in Ranks |-> st[r].sc]
          /\ newElements' = [r \in Ranks |-> st[r].ne]
          /\ threadIdx' = tI
          /\ ENList' = [r \in Ranks |->
               AppendBuffers(st[r].en, NElements[r], newSize[r], tI[r], st[r].sc,
                             st[r].ne, [k \in 1..nloc |-> 0])]
          /\ NElements' = newSize
  /\ NNodes' = [r \in Ranks |-> Size(coords[r])]
  /\ ub' = [r \in Ranks |->
              IF ReadsPastLnn2gnn(r) THEN ub[r] \cup {"lnn2gnn[new]"} ELSE ub[r]]
  /\ pc' = "halo"
  /\ UNCHANGED <<input, teamVars, gvert, coords, metric, NNList, send, recv, property,
                 origNNodes, origNElements, numberVars, node_owner, refined_edges,
                 newVertices, newCoords, newMetric, loopVars>>

\* ------------------------------------------------------------ halo
\* All staged vertices of rank r, in the order of the loop over workers.
RECURSIVE AllNewVertices(_, _)
AllNewVertices(r, t) ==
  IF t >= nthreads THEN <<>> ELSE newVertices[r][t] \o AllNewVertices(r, t + 1)

\* The assignment with the greater of the two owners.
RECURSIVE AssignOwnersMax(_, _, _, _)
AssignOwnersMax(own, r, verts, k) ==
  IF k > Len(verts) THEN own
  ELSE LET vert == verts[k]
           owner0 == own[gnn2lnn[r][vert.first]]
           owner1 == own[gnn2lnn[r][vert.second]]
       IN AssignOwnersMax([own EXCEPT ![vert.id] = Max2(owner0, owner1)], r, verts, k + 1)

\* node_owner[vert->id] = min(owner0, owner1) for every staged vertex.
RECURSIVE AssignOwners(_, _, _, _)
AssignOwners(own, r, verts, k) ==
  IF k > Len(verts) THEN own
  ELSE LET vert == verts[k]
           owner0 == own[gnn2lnn[r][vert.first]]
           owner1 == own[gnn2lnn[r][vert.second]]
       IN AssignOwners([own EXCEPT ![vert.id] = Min2(owner0, owner1)], r, verts, k + 1)

\* lut_newVertices[id]: the staged vertex with that id (a default
\* DirectedEdge when operator[] finds none).
LutNewVertices(r, id) ==
  LET verts == AllNewVertices(r, 0)
  IN IF \E k \in 1..Len(verts) : verts[k].id = id
     THEN verts[CHOOSE k \in 1..Len(verts) :
                  verts[k].id = id /\ \A j \in 1..Len(verts) : verts[j].id = id => j <= k]
     ELSE [first |-> -1, second |-> -1, id |-> id]

\* node_owner[v]; -1 when v is no index of node_owner.
OwnerAt(own, v) == IF v \in DOMAIN own THEN own[v] ELSE -1

\* The iteration that keeps an element without a local vertex.
HaloElementKeep(h, r, own, i) ==
  LET n == h.en[i]
      processes == {OwnerAt(own, n[j]) : j \in 1..Len(n)}
      mine == {n[j] : j \in {j \in 1..Len(n) : n[j] >= origNNodes[r] /\ OwnerAt(own, n[j]) = r}}
      theirs == {n[j] : j \in {j \in 1..Len(n) : n[j] >= origNNodes[r] /\ OwnerAt(own, n[j]) # r}}
  IN IF n[1] < 0 \/ Cardinality(processes) = 1 THEN h
     ELSE [h EXCEPT
             !.snd = [p \in DOMAIN h.snd |->
                        IF p \in processes /\ p # r
                        THEN h.snd[p] \cup {LutNewVertices(r, v) : v \in mine}
                        ELSE h.snd[p]],
             !.rcv = [p \in DOMAIN h.rcv |->
                        h.rcv[p] \cup {LutNewVertices(r, v) :
                                         v \in {w \in theirs : OwnerAt(own, w) = p}}]]

(* The loop over the appended elements on h = [en, snd, rcv]: snd[p] and     *)
(* rcv[p] are send_additional[p] and recv_additional[p].                     *)
HaloElement(h, r, own, i) ==
  LET n == h.en[i]
      processes == {OwnerAt(own, n[j]) : j \in 1..Len(n)}
      mine == {n[j] : j \in {j \in 1..Len(n) : n[j] >= origNNodes[r] /\ OwnerAt(own, n[j]) = r}}
      theirs == {n[j] : j \in {j \in 1..Len(n) : n[j] >= origNNodes[r] /\ OwnerAt(own, n[j]) # r}}
  IN IF n[1] < 0 THEN h
     ELSE IF r \notin processes THEN [h EXCEPT !.en = erase_element(h.en, i)]
     ELSE IF Cardinality(processes) = 1 THEN h
     ELSE [h EXCEPT
             !.snd = [p \in DOMAIN h.snd |->
                        IF p \in processes /\ p # r
                        THEN h.snd[p] \cup {LutNewVertices(r, v) : v \in mine}
                        ELSE h.snd[p]],
             !.rcv = [p \in DOMAIN h.rcv |->
                        h.rcv[p] \cup {LutNewVertices(r, v) :
                                         v \in {w \in theirs : OwnerAt(own, w) = p}}]]

RECURSIVE HaloLoop(_, _, _, _)
HaloLoop(h, r, own, i) ==
  IF i >= NElements[r] THEN h
  ELSE HaloLoop(HaloElement(h, r, own, i), r, own, i + 1)

\* Iteration order of std::set<DirectedEdge>: by first, then by second.
EdgeLess(a, b) == a.first < b.first \/ (a.first = b.first /\ a.second < b.second)
RECURSIVE EdgesInOrder(_)
EdgesInOrder(S) ==
  IF S = {} THEN <<>>
  ELSE LET m == CHOOSE x \in S : \A y \in S : ~EdgeLess(y, x)
       IN <<m>> \o EdgesInOrder(S \ {m})

\* _mesh->send[i].push_back(it->id) over the set.
PushIds(list, S) ==
  LET es == EdgesInOrder(S) IN list \o [k \in 1..Len(es) |-> es[k].id]

\* "Time to ammend halo": compiled with MPI and run on more than one rank.
HaloRebuild ==
  /\ pc = "halo"
  /\ IF nprocs > 1
     THEN \E own \in {[r \in Ranks |->
                         AssignOwners(node_owner[r], r, AllNewVertices(r, 0), 1)]} :
          \E h \in {[r \in Ranks |->
                       HaloLoop([en |-> ENList[r],
                                 snd |-> [p \in Ranks |-> {}],
                                 rcv |-> [p \in Ranks |-> {}]],
                                r, own[r], origNElements[r])]} :
             /\ node_owner' = own
             /\ ENList' = [r \in Ranks |-> h[r].en]
             /\ send' = [r \in Ranks |-> [p \in Ranks |-> PushIds(send[r][p], h[r].snd[p])]]
             /\ recv' = [r \in Ranks |-> [p \in Ranks |-> PushIds(recv[r][p], h[r].rcv[p])]]
     ELSE UNCHANGED <<node_owner, ENList, send, recv>>
  /\ pc' = "orient"
  /\ UNCHANGED <<input, teamVars, gvert, coords, metric, NNList, property, sizeVars, numberVars,
                 stageVars, newElements, threadIdx, loopVars, ub>>

\* ------------------------------------------------------------ orientation
\* The body of the loop "Fix orientations of new elements".
FlipIfNegative(r, n) ==
  IF n[1] >= 0 /\ SignedSize(r, n) < 0
  THEN [n EXCEPT ![1] = n[2], ![2] = n[1]]
  ELSE n

\* for(int i=NElements; i<_mesh->get_number_elements(); i++)
FixOrientations(r, first) ==
  [i \in DOMAIN ENList[r] |->
     IF i >= first THEN FlipIfNegative(r, ENList[r][i]) ELSE ENList[r][i]]

Reorient ==
  /\ pc = "orient"
  /\ ENList' = [r \in Ranks |-> FixOrientations(r, NElements[r])]
  /\ pc' = "surface"
  /\ UNCHANGED <<input, teamVars, gvert, coords, metric, NNList, send, recv, property, sizeVars,
                 numberVars, node_owner, stageVars, newElements, threadIdx, loopVars, ub>>

\* _surface->refine(refined_edges, lnn2gnn) changes nothing of the mesh's
\* vertices and elements; _mesh->create_adjancy() rebuilds the adjacency.
Finish ==
  /\ pc = "surface"
  /\ NNList' = [r \in Ranks |-> BuildNNList(NNodes[r], ENList[r])]
  /\ pc' = "done"
  /\ UNCHANGED <<input, teamVars, gvert, coords, metric, ENList, send, recv, property, sizeVars,
                 numberVars, node_owner, stageVars, newElements, threadIdx, loopVars, ub>>

Next ==
  \/ Numbering
  \/ Ownership
  \/ Select
  \/ \E r \in Ranks : \E i \in 0..(NElements[r] - 1) : ScanElement(r, i)
  \/ ExitTest
  \/ Realise
  \/ InsertVertices
  \/ Subdivide
  \/ HaloRebuild
  \/ Reorient
  \/ Finish


\* ------------------------------------------------------------ the workers of an append phase
(* The parallel region "Insert new vertices into mesh" (pc = "insert") and  *)
(* the part of "Perform element refinement" after its loop                  *)
(* (pc = "subdivide"), on rank 0, one worker and one barrier interval at a  *)
(* time: a step is the code a worker executes between two barriers, and it  *)
(* ends with the worker waiting in the barrier. The buffers hold            *)
(* splitCnt[tid] entries each; accessed records who read and who wrote      *)
(* which shared location since the last barrier: entry j of threadIdx,      *)
(* position i of the mesh containers, or (-1) the containers' storage,      *)
(* which a resize writes and a copy uses.                                   *)
TeamInputs ==
  {[mesh |-> 1, long |-> {}, nthreads |-> w, L_max |-> 1, diag |-> <<1, 1>>, nan |-> FALSE] :
     w \in 1..MaxWorkers}
InitTeam == InitWith(TeamInputs, {"insert", "subdivide"}, CountValues)

otherVars == <<input, pc, meshVars, sizeVars, numberVars, node_owner, stageVars,
               newElements, loopVars, ub>>

\* NNodes in the vertex phase, NElements in the element phase.
Base == IF pc = "insert" THEN NNodes[0] ELSE NElements[0]

Access(tid, loc, write) == [tid |-> tid, loc |-> loc, write |-> write]

\* tid - blockSize for the index of the partial sum a worker adds.
ReadIndexBelow(tid, bs) == tid - bs

\* tid - ((tid & (blockSize - 1)) + 1), for blockSize a power of two.
ReadIndex(tid, bs) == tid - ((tid % bs) + 1)

\* while(blockSize < threadIdx.size()): the loop body or the code after it.
LoopTest(bs) == IF bs < nthreads THEN "read" ELSE "base"

\* threadIdx[tid] = splitCnt[tid]; barrier; blockSize = 1.
TeamStart(tid) ==
  /\ at[tid] = "start" /\ tid \notin waiting
  /\ threadIdx' = [threadIdx EXCEPT ![0][tid] = splitCnt[0][tid]]
  /\ accessed' = accessed \cup {Access(tid, <<"threadIdx", tid>>, TRUE)}
  /\ local' = [local EXCEPT ![tid].blockSize = 1]
  /\ at' = [at EXCEPT ![tid] = LoopTest(1)]
  /\ waiting' = waiting \cup {tid}
  /\ UNCHANGED <<otherVars, resized, writers>>

\* if((tid & blockSize) != 0) tmp = threadIdx[...]; else tmp = 0; barrier.
TeamRead(tid) ==
  /\ at[tid] = "read" /\ tid \notin waiting
  /\ IF (tid \div local[tid].blockSize) % 2 # 0
     THEN /\ local' = [local EXCEPT
                          ![tid].tmp = threadIdx[0][ReadIndex(tid, local[tid].blockSize)]]
          /\ accessed' = accessed \cup
               {Access(tid, <<"threadIdx", ReadIndex(tid, local[tid].blockSize)>>, FALSE)}
     ELSE /\ local' = [local EXCEPT ![tid].tmp = 0]
          /\ UNCHANGED accessed
  /\ at' = [at EXCEPT ![tid] = "add"]
  /\ waiting' = waiting \cup {tid}
  /\ UNCHANGED <<otherVars, threadIdx, resized, writers>>

\* threadIdx[tid] += tmp; barrier; blockSize <<= 1.
TeamAdd(tid) ==
  /\ at[tid] = "add" /\ tid \notin waiting
  /\ threadIdx' = [threadIdx EXCEPT ![0][tid] = @ + local[tid].tmp]
  /\ accessed' = accessed \cup {Access(tid, <<"threadIdx", tid>>, TRUE)}
  /\ local' = [local EXCEPT ![tid].blockSize = 2 * @]
  /\ at' = [at EXCEPT ![tid] = LoopTest(2 * local[tid].blockSize)]
  /\ waiting' = waiting \cup {tid}
  /\ UNCHANGED <<otherVars, resized, writers>>

\* threadIdx[tid] += NNodes - splitCnt[tid] (NElements in the element
\* phase); barrier.
TeamBase(tid) ==
  /\ at[tid] = "base" /\ tid \notin waiting
  /\ threadIdx' = [threadIdx EXCEPT ![0][tid] = @ + Base - splitCnt[0][tid]]
  /\ accessed' = accessed \cup {Access(tid, <<"threadIdx", tid>>, TRUE)}
  /\ at' = [at EXCEPT ![tid] = "resize"]
  /\ waiting' = waiting \cup {tid}
  /\ UNCHANGED <<otherVars, local, resized, writers>>

\* omp master: newSize = threadIdx[nthreads - 1] + splitCnt[nthreads - 1]
\* and the resize of the containers; the other workers go on to the barrier.
TeamResize(tid) ==
  /\ at[tid] = "resize" /\ tid \notin waiting
  /\ IF tid = 0
     THEN /\ resized' = TRUE
          /\ writers' = [i \in 0..(threadIdx[0][nthreads - 1] + splitCnt[0][nthreads - 1] - 1)
                           |-> {}]
          /\ accessed' = accessed \cup {Access(tid, <<"threadIdx", nthreads - 1>>, FALSE),
                                         Access(tid, <<"mesh", -1>>, TRUE)}
     ELSE UNCHANGED <<resized, writers, accessed>>
  /\ at' = [at EXCEPT ![tid] = "copy"]
  /\ waiting' = waiting \cup {tid}
  /\ UNCHANGED <<otherVars, threadIdx, local>>

(* memcpy of the worker's buffer to position threadIdx[tid]; in the vertex   *)
(* phase also newVertices[tid][i].id = threadIdx[tid] + i and the worker's   *)
(* share of "Fix IDs", which reads threadIdx[j] of every worker j that       *)
(* staged a vertex.                                                          *)
TeamCopy(tid) ==
  /\ at[tid] = "copy" /\ tid \notin waiting
  /\ \E to \in {threadIdx[0][tid]..(threadIdx[0][tid] + splitCnt[0][tid] - 1)} :
       /\ writers' = [i \in DOMAIN writers \cup to |->
                        (IF i \in DOMAIN writers THEN writers[i] ELSE {})
                        \cup (IF i \in to THEN {<<tid, i - threadIdx[0][tid]>>} ELSE {})]
       /\ accessed' = accessed
            \cup {Access(tid, <<"threadIdx", tid>>, FALSE)}
            \cup {Access(tid, <<"mesh", -1>>, FALSE)}
            \cup {Access(tid, <<"mesh", i>>, TRUE) : i \in to}
            \cup (IF pc = "insert"
                  THEN {Access(tid, <<"threadIdx", j>>, FALSE) :
                          j \in {j \in Tids : splitCnt[0][j] > 0}}
                  ELSE {})
  /\ at' = [at EXCEPT ![tid] = "end"]
  /\ UNCHANGED <<otherVars, threadIdx, local, resized, waiting>>

\* A barrier that lets the workers that wait go on when one of them has
\* arrived.
TeamBarrierEarly ==
  /\ waiting # {}
  /\ waiting' = {}
  /\ UNCHANGED <<otherVars, threadIdx, at, local, accessed, resized, writers>>

\* omp barrier: when every worker waits, all go on.
TeamBarrier ==
  /\ waiting = Tids
  /\ waiting' = {}
  /\ accessed' = {}
  /\ UNCHANGED <<otherVars, threadIdx, at, local, resized, writers>>

NextTeam ==
  \/ \E tid \in Tids : TeamStart(tid)
  \/ \E tid \in Tids : TeamRead(tid)
  \/ \E tid \in Tids : TeamAdd(tid)
  \/ \E tid \in Tids : TeamBase(tid)
  \/ \E tid \in Tids : TeamResize(tid)
  \/ \E tid \in Tids : TeamCopy(tid)
  \/ TeamBarrier


\* ------------------------------------------------------------ properties
\* The elements of rank r that are not erased.
LiveElements(r) == {i \in DOMAIN ENList[r] : ENList[r][i][1] >= 0}

\* The propagation loop of a 3D run has just been left.
LoopExited == ndims = 3 /\ pc = "insert"

\* The split patterns a template exists for, with the four-edge pattern the
\* data model lists beside them.
LegalPattern(split_set) ==
  LET c == Len(split_set)
  IN \/ c \in {0, 1, 4, 6}
     \/ c = 2 /\ connected(split_set[1], split_set[2]) = -1
     \/ c = 3 /\ Cardinality(UNION {{split_set[k][1], split_set[k][2]} : k \in 1..3}) = 3

\* C1: when the 3D propagation loop exits, the split edges of every element
\* that is not erased form a legal pattern (none, one, two opposite, three of
\* a face, four, six).
C1_LegalPatternAtExit ==
  LoopExited =>
    \A r \in Ranks : \A i \in LiveElements(r) :
      LegalPattern(SplitSet(r, refined_edges[r], ENList[r][i]))

\* The LIDs of the vertices refine() has appended on rank r.
NewLIDs(r) == {v \in DOMAIN coords[r] : v >= origNNodes[r]}

\* C2: no slot holds the pending mark when the propagation loop exits, and
\* at the end of refine every slot is -1 or the LID of a new vertex.
C2_SlotsTerminal ==
  /\ LoopExited => \A r \in Ranks : Pending(r) = {}
  /\ pc = "done" =>
       \A r \in Ranks : \A s \in SetSlots(refined_edges[r]) :
         refined_edges[r][s[1]][SlotPos(s[2])] \in NewLIDs(r)

\* C3: an iteration of the propagation loop that does not exit has marked an
\* edge whose slot was -1 when the iteration began, and the iterations that
\* do not exit are at most as many as the mesh has edges.
C3_IterationMarksNewEdge ==
  /\ pc = "realise" => \E r \in Ranks : Pending(r) \ startEdges[r] # {}
  /\ iter <= Cardinality(MeshEdges(Meshes[input.mesh]))
C3_Witness == pc = "realise" /\ iter >= 1 /\ nprocs = 2

\* The edges (a,b), as LIDs of rank r, that a staged vertex lies on.
StagedEdges(r) ==
  {{gnn2lnn[r][v.first], gnn2lnn[r][v.second]} : v \in Range(AllNewVertices(r, 0))}

\* C4: at the end of refine no element that is not erased contains both
\* endpoints of an edge a new vertex was inserted on (no hanging node).
C4_NoHangingNode ==
  pc = "done" =>
    \A r \in Ranks : \A i \in LiveElements(r) : \A e \in StagedEdges(r) :
      ~(e \subseteq Range(ENList[r][i]))

\* C5: at the end of refine every appended element that is not erased has
\* positive signed area or volume (stated for the ranks on which no
\* out-of-bounds read has happened, so that every LID has coordinates).
C5_AppendedPositive ==
  pc = "done" =>
    \A r \in Ranks : ub[r] = {} =>
      \A i \in LiveElements(r) : i >= origNElements[r] => SignedSize(r, ENList[r][i]) > 0

\* The edge-selection pass has just ended.
AfterSelect ==
  \/ ndims = 2 /\ pc = "insert"
  \/ ndims = 3 /\ pc = "scan" /\ iter = 0 /\ \A r \in Ranks : scanned[r] = {}

\* The buffer positions <<tid, k>> of rank r that hold directed edge (g0,g1).
StagedAt(r, g0, g1) ==
  {tk \in UNION {{<<t, k>> : k \in 1..Len(newVertices[r][t])} : t \in Tids} :
     newVertices[r][tk[1]][tk[2]].first = g0 /\ newVertices[r][tk[1]][tk[2]].second = g1}

\* The metric length of the edge of original vertices i and u of rank r.
IsLong(r, i, u) == calc_edge_length(r, i, u) > input.L_max

\* C6: after edge selection, an edge (i,u) with GID(i) < GID(u) that is longer
\* than L_max has exactly one staged vertex, the slot of u at i holds its
\* offset and producer tag, and the slot of i at u is -1; an edge that is not
\* longer than L_max has no staged vertex and its slot is -1.
C6_SelectionStagesLongEdges ==
  AfterSelect =>
    \A r \in Ranks : \A i \in DOMAIN refined_edges[r] : \A it \in 0..(Len(NNList[r][i]) - 1) :
      LET u == NNList[r][i][it + 1]
          slot == refined_edges[r][i][SlotPos(it)]
          tag == refined_edges[r][i][TagPos(it)]
          back == refined_edges[r][u][SlotPos(PosIn(NNList[r][u], i) - 1)]
      IN lnn2gnn[r][i] < lnn2gnn[r][u] =>
           IF IsLong(r, i, u)
           THEN /\ StagedAt(r, lnn2gnn[r][i], lnn2gnn[r][u]) = {<<tag, slot + 1>>}
                /\ back = -1
           ELSE /\ StagedAt(r, lnn2gnn[r][i], lnn2gnn[r][u]) = {}
                /\ slot = -1
                /\ back = -1
C6_Witness ==
  /\ AfterSelect
  /\ nthreads = 2
  /\ \A t \in Tids : Len(newVertices[0][t]) >= 1
  /\ input.L_max = 1
  /\ \E E \in MeshEdges(Meshes[input.mesh]) : E \notin input.long

\* The rank that owns original vertex a of rank r in the input partition.
InputOwner(r, a) == Meshes[input.mesh].own[gvert[r][a] + 1]

\* The owner a new vertex has when it is the lesser of its edge's owners.
MinOwner(r, v) ==
  Min2(InputOwner(r, gnn2lnn[r][v.first]), InputOwner(r, gnn2lnn[r][v.second]))

AppendedEdges(r, list, n0) ==
  [k \in 1..(Len(list) - n0) |->
     <<LutNewVertices(r, list[n0 + k]).first, LutNewVertices(r, list[n0 + k]).second>>]

\* C8: for ranks p # q, what q has appended to send[p] and what p has
\* appended to recv[q] list the same edges in the same order (stated for
\* the runs in which no rank has read out of bounds, so that the lists are
\* those of defined behaviour).
C8_HaloRoundTrip ==
  pc = "done" /\ (\A r \in Ranks : ub[r] = {}) =>
    \A p, q \in Ranks : p # q =>
      AppendedEdges(q, send[q][p], Len(Views[input.mesh][q].send[p]))
        = AppendedEdges(p, recv[p][q], Len(Views[input.mesh][p].recv[q]))

\* The edges (gid_lo, gid_hi) rank r holds, and those it has a new vertex on.
HeldEdges(r) ==
  UNION {{<<Min2(lnn2gnn[r][i], lnn2gnn[r][u]), Max2(lnn2gnn[r][i], lnn2gnn[r][u])>> :
            u \in Range(NNList[r][i])} : i \in DOMAIN lnn2gnn[r]}
SplitEdges(r) ==
  {<<v.first, v.second>> : v \in Range(AllNewVertices(r, 0))}

\* C9: when the propagation loop has been left, two ranks that hold the same
\* edge agree on whether it has a new vertex.
C9_RanksAgreeOnSplitEdges ==
  pc = "subdivide" =>
    \A p, q \in Ranks : \A e \in HeldEdges(p) \cap HeldEdges(q) :
      e \in SplitEdges(p) <=> e \in SplitEdges(q)

\* C10: when no edge is longer than L_max, the vertices, coordinates, metric,
\* elements and halo lists of every rank are at every point of refine what
\* they were before the call.
C10_FineMeshUnchanged ==
  input.long = {} /\ input.L_max >= 1 =>
    \A r \in Ranks :
      /\ coords[r] = Views[input.mesh][r].coords
      /\ metric[r] = Views[input.mesh][r].metric
      /\ ENList[r] = Views[input.mesh][r].ENList
      /\ send[r] = Views[input.mesh][r].send
      /\ recv[r] = Views[input.mesh][r].recv
      /\ NNodes[r] = origNNodes[r]
      /\ NElements[r] = origNElements[r]
C10_Witness ==
  pc = "done" /\ input.long = {} /\ input.L_max = 1 /\ nprocs = 2 /\ ndims = 2

\* The split patterns the 3D subdivision has a template for.
HasTemplate(split_set) ==
  LET c == Len(split_set)
  IN \/ c \in {0, 1, 6}
     \/ c = 2 /\ connected(split_set[1], split_set[2]) = -1
     \/ c = 3 /\ Cardinality(UNION {{split_set[k][1], split_set[k][2]} : k \in 1..3}) = 3

\* The element rank r held at index i before the call.
InputElement(r, i) == Views[input.mesh][r].ENList[i]

\* C11: after the 3D subdivision pass, an original element whose split
\* pattern has no template has not been erased unless at least two children
\* were appended for it.
C11_NoTemplateNotErasedBare ==
  pc = "halo" /\ ndims = 3 =>
    \A r \in Ranks : \A i \in 0..(origNElements[r] - 1) :
      ~HasTemplate(SplitSet(r, refined_edges[r], InputElement(r, i)))
        /\ ENList[r][i][1] < 0
      => Len(Refine3D(r, refined_edges[r], InputElement(r, i))) >= 2


\* The mesh of rank r is what it was before the call.
MeshAsBefore(r) ==
  /\ coords[r] = Views[input.mesh][r].coords
  /\ metric[r] = Views[input.mesh][r].metric
  /\ ENList[r] = Views[input.mesh][r].ENList
  /\ send[r] = Views[input.mesh][r].send
  /\ recv[r] = Views[input.mesh][r].recv

\* C12: a call of refine with L_max not strictly positive leaves the mesh of
\* every rank unmodified: no vertex appended, no element erased or appended,
\* no halo entry added.
C12_BadLmaxLeavesMeshUnmodified ==
  input.L_max <= 0 => \A r \in Ranks : MeshAsBefore(r)

\* C13: no vertex whose metric is NaN is appended to the metric array of the
\* mesh.
C13_NoNaNMetricAppended ==
  \A r \in Ranks : \A v \in DOMAIN metric[r] : v >= origNNodes[r] => metric[r][v] # NaN

\* The element scan as one worker runs it: in index order.
RECURSIVE SeqScan(_, _, _)
SeqScan(out, r, i) ==
  IF i >= NElements[r] THEN out
  ELSE SeqScan(ScanBody(out, r, ENList[r][i]), r, i + 1)

\* The schedule that gives every iteration to worker 0.
OneWorker(r) == [i \in 0..(NNodes[r] - 1) |-> 0]

\* The propagation loop with the scan in index order, from stage st, for at
\* most fuel iterations that do not exit.
RECURSIVE SeqPropagation(_, _, _)
SeqPropagation(st, r, fuel) ==
  LET out == SeqScan([re |-> st.re, new |-> 0], r, 0)
  IN IF out.new = 0 \/ fuel = 0 THEN [st EXCEPT !.re = out.re]
     ELSE SeqPropagation(RealiseLoop([st EXCEPT !.re = out.re], r, 0, OneWorker(r)),
                         r, fuel - 1)

\* What edge selection and propagation give on rank r with the scans in
\* index order.
SeqOutcome(r) ==
  SeqPropagation(SelectLoop(EmptyStage(r), r, 0, OneWorker(r)), r,
                 Cardinality(MeshEdges(Meshes[input.mesh])))

\* C14: whatever the order in which the workers scan the elements, the
\* propagation loop exits with the split edges and the number of new
\* vertices that the scan in index order gives.
C14_ScanOrderIrrelevant ==
  LoopExited /\ nprocs = 1 =>
    \E ref \in {SeqOutcome(0)} :
      /\ SetSlots(refined_edges[0]) = SetSlots(ref.re)
      /\ SumTo(splitCnt[0], nthreads - 1) = SumTo(ref.sc, nthreads - 1)

\* C15: in every test that orders the arguments of calc_edge_length for a
\* diagonal of the 2D two-split template, both sides of the comparison are
\* the GIDs of the diagonal's endpoints: lnn2gnn is read at an index it has,
\* and the other side is lnn2gnn of the other endpoint.
C15_DiagonalOrderedByGIDs ==
  pc = "subdivide" =>
    \A r \in Ranks : \A i \in TwoSplit(r) : \A k \in 1..2 :
      \E t \in {DiagonalTests(r, refined_edges[r], ENList[r][i])[k]} :
        /\ t.left \in DOMAIN lnn2gnn[r]
        /\ t.right = lnn2gnn[r][t.other]

\* The original triangles of rank r that had two split edges when they were
\* refined.
WasTwoSplit(r) ==
  {i \in 0..(origNElements[r] - 1) :
     ndims = 2 /\ RefineCnt(r, refined_edges[r], InputElement(r, i)) = 2}

(* The vertex sets of the three children of triangle n with two split     *)
(* edges when diagonal d is used: the corner triangle at n0, and the two   *)
(* triangles of the quadrilateral that share the first diagonal            *)
(* (vertexID[0], n1) for d = 1, the second (vertexID[1], n2) for d = 2.    *)
ChildrenWithDiagonal(r, n, d) ==
  LET t == DiagonalTests(r, refined_edges[r], n)
      v0 == t[1].left
      v1 == t[2].left
      n1 == t[1].other
      n2 == t[2].other
      n0 == CHOOSE v \in Range(n) : v # n1 /\ v # n2
  IN IF d = 1 THEN {{n0, v1, v0}, {v0, n1, n2}, {v0, v1, n1}}
     ELSE {{n0, v1, v0}, {v1, n1, n2}, {v0, v1, n2}}

\* The vertex sets of the elements appended on rank r.
AppendedSets(r) ==
  {Range(ENList[r][k]) : k \in {k \in DOMAIN ENList[r] : k >= origNElements[r]}}

\* C16 as claimed: the children of a triangle with two split edges use the
\* first diagonal when it is shorter than the second or as long, else the
\* second.
C16_EqualTakesFirstDiagonal ==
  pc = "halo" =>
    \A r \in Ranks : \A i \in WasTwoSplit(r) :
      ChildrenWithDiagonal(r, InputElement(r, i),
                           IF input.diag[1] <= input.diag[2] THEN 1 ELSE 2)
        \subseteq AppendedSets(r)

\* C16 amended: the children of a triangle with two split edges use the
\* first diagonal when it is strictly shorter than the second, else (also
\* when the two are equally long) the second.
C16_EqualTakesSecondDiagonal ==
  pc = "halo" =>
    \A r \in Ranks : \A i \in WasTwoSplit(r) :
      ChildrenWithDiagonal(r, InputElement(r, i),
                           IF input.diag[1] < input.diag[2] THEN 1 ELSE 2)
        \subseteq AppendedSets(r)
C16_Witness ==
  /\ pc = "halo"
  /\ ~input.nan
  /\ input.diag[1] = input.diag[2]
  /\ WasTwoSplit(0) # {}
  /\ \E i \in WasTwoSplit(0) :
       ChildrenWithDiagonal(0, InputElement(0, i), 2) \subseteq AppendedSets(0)

\* Every worker of the append phase has finished its prefix sum.
PrefixDone == \A t \in Tids : at[t] \in {"resize", "copy", "end"}

\* Every worker of the append phase has copied its buffer.
TeamDone == \A t \in Tids : at[t] = "end"

\* The positions worker t copies its buffer to.
WriteRange(t) == threadIdx[0][t]..(threadIdx[0][t] + splitCnt[0][t] - 1)

(* C18: after the prefix sum of an append phase with any number of workers *)
(* and any counts, threadIdx[t] = base + the counts of the workers before  *)
(* t (which is what the one-step prefix sum of the refinement run          *)
(* computes); the workers' write ranges are pairwise disjoint and tile     *)
(* [base, base + total); and when all have copied, every position of that  *)
(* range holds exactly one buffer entry and no other position holds one.   *)
C18_PrefixSumTilesAppendedRange ==
  /\ PrefixDone =>
       /\ \A t \in Tids : threadIdx[0][t] = Base + SumTo(splitCnt[0], t - 1)
       /\ threadIdx[0] = PrefixSum(splitCnt[0], Base)
       /\ \A t, u \in Tids : t # u => WriteRange(t) \cap WriteRange(u) = {}
       /\ UNION {WriteRange(t) : t \in Tids}
            = Base..(Base + SumTo(splitCnt[0], nthreads - 1) - 1)
  /\ TeamDone =>
       \A i \in DOMAIN writers :
         Cardinality(writers[i]) =
           IF i \in Base..(Base + SumTo(splitCnt[0], nthreads - 1) - 1) THEN 1 ELSE 0
C18_Witness ==
  /\ TeamDone
  /\ nthreads = 3
  /\ splitCnt[0] = [t \in Tids |-> IF t = 1 THEN 0 ELSE 2]
  /\ threadIdx[0] = [t \in Tids |-> IF t = 0 THEN Base ELSE Base + 2]
  /\ \A i \in DOMAIN writers : i >= Base => Cardinality(writers[i]) = 1

(* C19: in every interleaving of the workers of an append phase, no two    *)
(* workers access the same shared location between two barriers unless     *)
(* both only read (threadIdx[j] is not read by another worker while j      *)
(* writes it, the containers are not copied to while the master resizes    *)
(* them, no position is written by two workers); a worker that has copied  *)
(* its buffer did so after the resize, to positions the resize made; and   *)
(* no position ever holds entries of two workers.                          *)
C19_NoDataRace ==
  /\ \A a, b \in accessed :
       (a.tid # b.tid /\ a.loc = b.loc) => (~a.write /\ ~b.write)
  /\ \A t \in Tids :
       at[t] = "end" => (resized /\ WriteRange(t) \subseteq DOMAIN writers)
  /\ \A i \in DOMAIN writers : Cardinality({e[1] : e \in writers[i]}) <= 1
C19_Witness ==
  /\ nthreads = 3
  /\ pc = "insert"
  /\ \A t \in Tids : splitCnt[0][t] > 0
  /\ at = [t \in Tids |-> IF t = 1 THEN "copy" ELSE "end"]
  /\ \E a \in accessed : a.tid = 0 /\ a.loc = <<"threadIdx", 1>> /\ ~a.write

(* C17: from the insertion of the new vertices to the end of refine, on    *)
(* every rank the coordinates, the metric and node_owner have one entry    *)
(* for each of origNNodes + (number of split edges) vertices; NNodes is    *)
(* that count once it is read back, so node_owner.size() == NNodes.        *)
C17_ArraysCoverExactlyTheVertices ==
  \A r \in Ranks :
    /\ pc \in {"subdivide", "halo", "orient", "surface", "done"} =>
         /\ Size(coords[r]) = origNNodes[r] + Cardinality(SplitEdges(r))
         /\ Size(metric[r]) = origNNodes[r] + Cardinality(SplitEdges(r))
         /\ Size(node_owner[r]) = origNNodes[r] + Cardinality(SplitEdges(r))
         /\ Len(AllNewVertices(r, 0)) = Cardinality(SplitEdges(r))
         /\ \A i \in DOMAIN coords[r] : Len(coords[r][i]) = ndims
    /\ pc \in {"halo", "orient", "surface", "done"} =>
         /\ NNodes[r] = origNNodes[r] + Cardinality(SplitEdges(r))
         /\ Size(node_owner[r]) = NNodes[r]
C17_Witness ==
  /\ pc = "done"
  /\ nprocs > 1
  /\ \E r \in Ranks : Cardinality(SplitEdges(r)) >= 2
  /\ \A r \in Ranks : Size(node_owner[r]) = NNodes[r] /\ Size(coords[r]) = NNodes[r]

\* The LIDs of the vertices staged on rank r for an edge of element n.
NewVerticesOn(r, n) ==
  {v.id : v \in {v \in Range(AllNewVertices(r, 0)) :
                   /\ gnn2lnn[r][v.first] \in Range(n)
                   /\ gnn2lnn[r][v.second] \in Range(n)}}

\* The appended elements of rank r built only from the vertices of element n
\* and the new vertices on its edges.
ChildrenOf(r, n) ==
  {k \in DOMAIN ENList[r] :
     k >= origNElements[r] /\ Range(ENList[r][k]) \subseteq Range(n) \cup NewVerticesOn(r, n)}

\* The number of children of the template for split_set, -1 where there is
\* none: 2D 2, 3, 4 for 1, 2, 3 split edges; 3D 2, 4, 4, 8 for one edge, two
\* opposite edges, the three edges of a face, six edges.
TemplateSize(split_set) ==
  LET c == Len(split_set)
  IN IF ndims = 2 THEN c + 1
     ELSE IF ~HasTemplate(split_set) THEN -1
     ELSE CASE c = 1 -> 2 [] c = 2 -> 4 [] c = 3 -> 4 [] c = 6 -> 8 [] OTHER -> 0

RECURSIVE SumOfTemplateSizes(_, _)
SumOfTemplateSizes(r, i) ==
  IF i < 0 THEN 0
  ELSE SumOfTemplateSizes(r, i - 1)
       + (IF SplitSet(r, refined_edges[r], InputElement(r, i)) = <<>> THEN 0
          ELSE TemplateSize(SplitSet(r, refined_edges[r], InputElement(r, i))))

(* C20: after the subdivision pass, an original element without a split     *)
(* edge is as it was and has no child; any other is erased and exactly k    *)
(* appended elements are built only from its vertices and the new vertices  *)
(* on its edges, k the size of the template of its split pattern; and the   *)
(* element count is origNElements plus the sum of k over the split          *)
(* elements.                                                                *)
C20_SplitElementsReplacedByTemplate ==
  pc = "halo" =>
    \A r \in Ranks :
      /\ \A i \in 0..(origNElements[r] - 1) :
           \E ss \in {SplitSet(r, refined_edges[r], InputElement(r, i))} :
             IF ss = <<>>
             THEN ENList[r][i] = InputElement(r, i)
             ELSE /\ ENList[r][i][1] < 0
                  /\ Cardinality(ChildrenOf(r, InputElement(r, i))) = TemplateSize(ss)
      /\ NElements[r] = origNElements[r] + SumOfTemplateSizes(r, origNElements[r] - 1)

\* C20 on the runs without an out-of-bounds read.
C20_OnDefinedRuns ==
  (\A r \in Ranks : ub[r] = {}) => C20_SplitElementsReplacedByTemplate

\* C20 in 2D.
C20_In2D ==
  ndims = 2 => C20_SplitElementsReplacedByTemplate

\* The rank that owns the vertex rank r holds at LID i.
OwnerOfVertex(r, i) == Meshes[input.mesh].own[gvert[r][i] + 1]

\* The numbering offset of rank r: the vertex counts of the ranks before it.
OffsetOf(r) == IF nprocs > 1 THEN SumTo(origNNodes, r) - origNNodes[r] ELSE 0

(* C21: once the global numbering is established, on every rank lnn2gnn is *)
(* injective and gnn2lnn[lnn2gnn[i]] = i; two ranks give the same GID to   *)
(* their LIDs exactly when these stand for the same vertex; and the GID of *)
(* a vertex is the offset of its owner plus its LID on the owner.          *)
C21_GlobalNumberingConsistent ==
  pc # "number" =>
    /\ \A r \in Ranks : \A i, j \in DOMAIN lnn2gnn[r] :
         i # j => lnn2gnn[r][i] # lnn2gnn[r][j]
    /\ \A r \in Ranks : \A i \in DOMAIN lnn2gnn[r] :
         /\ DOMAIN lnn2gnn[r] = 0..(origNNodes[r] - 1)
         /\ lnn2gnn[r][i] \in DOMAIN gnn2lnn[r]
         /\ gnn2lnn[r][lnn2gnn[r][i]] = i
    /\ \A r, q \in Ranks : \A i \in DOMAIN lnn2gnn[r] : \A j \in DOMAIN lnn2gnn[q] :
         (gvert[r][i] = gvert[q][j]) <=> (lnn2gnn[r][i] = lnn2gnn[q][j])
    /\ \A r \in Ranks : \A i \in DOMAIN lnn2gnn[r] :
         \E o \in {OwnerOfVertex(r, i)} :
           \E k \in DOMAIN gvert[o] :
             gvert[o][k] = gvert[r][i] /\ lnn2gnn[r][i] = OffsetOf(o) + k
C21_Witness ==
  /\ pc = "owner"
  /\ nprocs = 2
  /\ \E i \in DOMAIN lnn2gnn[1] :
       OwnerOfVertex(1, i) = 0 /\ lnn2gnn[1][i] # OffsetOf(1) + i
  /\ \E i \in DOMAIN lnn2gnn[0] :
       OwnerOfVertex(0, i) = 1 /\ lnn2gnn[0][i] # OffsetOf(0) + i

\* The halo has been rebuilt on a run of several ranks.
HaloRebuilt == nprocs > 1 /\ pc \in {"orient", "surface", "done"}

\* What the call has appended to list: the entries after those of before.
AppendedTo(list, before) == SubSeq(list, Len(before) + 1, Len(list))

SendAdded(r, p) == AppendedTo(send[r][p], Views[input.mesh][r].send[p])
RecvAdded(r, p) == AppendedTo(recv[r][p], Views[input.mesh][r].recv[p])

(* C22: after the halo rebuild on several ranks, every appended element    *)
(* that is not erased has a vertex the local rank owns; what the call      *)
(* appends to send[p] and recv[p] are new vertices, each at most once per  *)
(* list, to send[p] only vertices the local rank owns, to recv[p] only     *)
(* vertices rank p owns (p not the local rank), and none to both.          *)
C22_HaloRebuildKeepsLocalAndDedups ==
  HaloRebuilt =>
    \A r \in Ranks :
      /\ \A k \in DOMAIN ENList[r] :
           (k >= origNElements[r] /\ ENList[r][k][1] >= 0) =>
             \E j \in 1..Len(ENList[r][k]) : OwnerAt(node_owner[r], ENList[r][k][j]) = r
      /\ \A p \in Ranks :
           /\ \A a, b \in 1..Len(send[r][p]) : a # b => send[r][p][a] # send[r][p][b]
           /\ \A a, b \in 1..Len(recv[r][p]) : a # b => recv[r][p][a] # recv[r][p][b]
           /\ \A v \in Range(SendAdded(r, p)) :
                v >= origNNodes[r] /\ OwnerAt(node_owner[r], v) = r /\ p # r
           /\ \A v \in Range(RecvAdded(r, p)) :
                v >= origNNodes[r] /\ OwnerAt(node_owner[r], v) = p /\ p # r
      /\ \A p, q \in Ranks : Range(SendAdded(r, p)) \cap Range(RecvAdded(r, q)) = {}
C22_Witness ==
  /\ HaloRebuilt
  /\ pc = "done"
  /\ \E r, p \in Ranks : Len(SendAdded(r, p)) >= 2
  /\ \E r, p \in Ranks : Len(RecvAdded(r, p)) >= 2
  /\ \E r \in Ranks : \E k \in DOMAIN ENList[r] :
       k >= origNElements[r] /\ ENList[r][k][1] < 0

(* C23: outside the element scan every rank holds the same new_edges_size, *)
(* so at every exit test of the propagation loop all ranks take the same   *)
(* decision (all leave the loop, or all go on to realise the marked edges  *)
(* and to the next reduction) and have made the same number of iterations. *)
C23_RanksDecideAlike ==
  pc # "scan" =>
    \A r, q \in Ranks :
      /\ new_edges_size[r] = new_edges_size[q]
      /\ pc = "realise" => new_edges_size[r] # 0
      /\ (pc = "insert" /\ ndims = 3) => new_edges_size[r] = 0
C23_Witness ==
  /\ nprocs = 2
  /\ ndims = 3
  /\ pc = "insert"
  /\ iter >= 1
  /\ new_edges_size = [r \in Ranks |-> 0]

(* C24: lnn2gnn is never read at the LID of a vertex this call created:   *)
(* when the subdivision pass begins, the index on the left of each '<' of  *)
(* the two-split template is below origNNodes, and no read past the end of *)
(* lnn2gnn has happened at any point.                                      *)
C24_Lnn2gnnReadAtOriginalVertices ==
  \A r \in Ranks :
    /\ pc = "subdivide" =>
         \A i \in TwoSplit(r) : \A k \in 1..2 :
           \E left \in {DiagonalTests(r, refined_edges[r], ENList[r][i])[k].left} :
             0 <= left /\ left < origNNodes[r]
    /\ "lnn2gnn[new]" \notin ub[r]

\* The slots of rank r that hold a staged offset: neither unset nor pending.
StagedSlots(r) ==
  {s \in SetSlots(refined_edges[r]) : refined_edges[r][s[1]][SlotPos(s[2])] # MAX_INT}

\* The directed edge of slot s of rank r: the GIDs of the vertex and of its
\* neighbour.
SlotEdge(r, s) == <<lnn2gnn[r][s[1]], lnn2gnn[r][NNList[r][s[1]][s[2] + 1]]>>

(* The staged slots of every rank are as many as the sum of splitCnt and   *)
(* as the entries of the newVertices buffers, each buffer has splitCnt[tid] *)
(* entries, and no directed edge is twice in the buffers.                  *)
StagingCounts ==
  \A r \in Ranks :
    /\ Cardinality(StagedSlots(r)) = SumTo(splitCnt[r], nthreads - 1)
    /\ \A t \in Tids : Len(newVertices[r][t]) = splitCnt[r][t]
    /\ \A t, u \in Tids :
         \A a \in 1..Len(newVertices[r][t]) : \A b \in 1..Len(newVertices[r][u]) :
           (<<t, a>> # <<u, b>>) =>
             <<newVertices[r][t][a].first, newVertices[r][t][a].second>>
               # <<newVertices[r][u][b].first, newVertices[r][u][b].second>>

\* The counts agree, and every staged slot holds the position of its own
\* edge in the buffer of its tag.
StagingConsistent ==
  /\ StagingCounts
  /\ \A r \in Ranks :
       \A s \in StagedSlots(r) :
         \E k \in {refined_edges[r][s[1]][SlotPos(s[2])]} :
         \E t \in {refined_edges[r][s[1]][TagPos(s[2])]} :
           /\ t \in Tids
           /\ k + 1 \in 1..Len(newVertices[r][t])
           /\ <<newVertices[r][t][k + 1].first, newVertices[r][t][k + 1].second>>
                = SlotEdge(r, s)

\* C25 as claimed: on a run without an out-of-bounds read the counts agree
\* at every point of refine once the edges have been selected.
C25_StagingCountsAlways ==
  (pc \notin {"number", "owner", "select"} /\ \A r \in Ranks : ub[r] = {})
    => StagingCounts

(* C25 amended: the staging is consistent at every point from the edge     *)
(* selection until the new vertices are inserted (so no mark has replaced  *)
(* a staged offset and no edge was staged twice), and each buffer still    *)
(* has splitCnt[tid] entries when the element refinement begins.           *)
C25_StagingConsistentUntilInsertion ==
  /\ pc \in {"scan", "realise", "insert"} => StagingConsistent
  /\ pc = "subdivide" =>
       \A r \in Ranks : \A t \in Tids : Len(newVertices[r][t]) = splitCnt[r][t]
C25_Witness ==
  /\ pc = "insert"
  /\ iter >= 1
  /\ nthreads = 2
  /\ \A t \in Tids : splitCnt[0][t] >= 1
  /\ Cardinality(StagedSlots(0)) >= 3
  /\ StagingConsistent

\* The faces of tetrahedron n, as sets of three vertices.
FacesOf(n) == {f \in SUBSET Range(n) : Cardinality(f) = 3}

\* The edges of face f that are split on rank r.
SplitEdgesOfFace(r, f) ==
  {e \in SUBSET f :
     Cardinality(e) = 2 /\
     \E a, b \in e : a # b /\ get_new_vertex(r, refined_edges[r], a, b) >= 0}

\* The new vertex on the split edge e.
NewVertexOn(r, e) ==
  CHOOSE v \in {get_new_vertex(r, refined_edges[r], a, b) : a, b \in e} : v >= 0

\* The triangles the children of the original element i of rank r have in
\* face f of it; the face itself when the element was not refined.
InducedOn(r, i, f) ==
  IF ENList[r][i][1] >= 0 THEN {f}
  ELSE LET points == f \cup {NewVertexOn(r, e) : e \in SplitEdgesOfFace(r, f)}
       IN UNION {{t \in SUBSET Range(ENList[r][k]) :
                    Cardinality(t) = 3 /\ t \subseteq points} :
                 k \in ChildrenOf(r, InputElement(r, i))}

(* The triangles of face f that its split edges call for: the face, the    *)
(* two halves from the new vertex to the opposite vertex, or the three     *)
(* corner triangles and the middle one; none for two split edges.          *)
FaceTriangles(r, f) ==
  LET S == SplitEdgesOfFace(r, f)
  IN CASE Cardinality(S) = 0 -> {f}
       [] Cardinality(S) = 1 ->
            LET e == CHOOSE e \in S : TRUE
            IN {(f \ {a}) \cup {NewVertexOn(r, e)} : a \in e}
       [] Cardinality(S) = 3 ->
            {{a} \cup {NewVertexOn(r, e) : e \in {e \in S : a \in e}} : a \in f}
            \cup {{NewVertexOn(r, e) : e \in S}}
       [] OTHER -> {}

(* C26: after the 3D subdivision, no face of a refined element has exactly *)
(* two split edges, the triangles the children have in a face are those    *)
(* its split edges call for, and two elements of a rank that share a face  *)
(* have the same triangles in it.                                          *)
C26_FaceTriangulationBySplitEdges ==
  (pc = "halo" /\ ndims = 3) =>
    \A r \in Ranks : \A i \in 0..(origNElements[r] - 1) :
      \A f \in FacesOf(InputElement(r, i)) :
        /\ ENList[r][i][1] < 0 =>
             /\ Cardinality(SplitEdgesOfFace(r, f)) # 2
             /\ InducedOn(r, i, f) = FaceTriangles(r, f)
        /\ \A j \in 0..(origNElements[r] - 1) :
             f \in FacesOf(InputElement(r, j)) => InducedOn(r, i, f) = InducedOn(r, j, f)

\* C26 on the runs without an out-of-bounds read.
C26_OnDefinedRuns ==
  (\A r \in Ranks : ub[r] = {}) => C26_FaceTriangulationBySplitEdges

Spec == Init /\ [][Next]_vars
SpecScan == InitScan /\ [][Next]_vars
SpecTeam == InitTeam /\ [][NextTeam]_vars

====
